---- MODULE Spec2Model ----
(***************************************************************************)
(* Model of the ColdFront user-management plugin: the event-driven tasks   *)
(* of tasks.py, the group-set synchronizer of utils.py and the directory   *)
(* client they drive (tests/helpers.py, grouper_user_management_client.py).*)
(***************************************************************************)
EXTENDS Integers, Sequences, FiniteSets, TLC

\* ---------------------------------------------------------------- bounds
NumUsers == 2
NumEntities == 2
NumGroups == 2
NumWorkers == 2

Users == 1..NumUsers          \* usernames
Entities == 1..NumEntities    \* primary keys of projects / allocations
GroupNames == 1..NumGroups    \* directory group names
Workers == 1..NumWorkers      \* workers of the task cluster

\* ------------------------------------------------------- registry values
ProjectStatuses == {"New", "Active", "Archived"}
AllocationStatuses == {"New", "Active", "Pending", "Inactive (Renewed)"}

VARIABLES
    kind,        \* "project" | "allocation": the table the entities stand for
    status,      \* status[e]: name of the entity's status
    attrs,       \* attrs[e]: values of the group attribute declared on e
    pi,          \* pi[e]: the project's PI
    userStatus,  \* userStatus[e][u]: status of u's association on e,
                 \* "None" when u has no association record on e
    accounts,    \* the usernames that have a User record
    groups,      \* the directory: existing group name -> set of members
    flaky,       \* whether directory calls may fail in this behaviour
    workers,     \* workers[w]: the task worker w holds and its position in it
    settings,    \* the plugin's Django settings that steer the signal wiring
    receivers,   \* the connections made on the registry's signals, in order
    last         \* what the last operation did (calls made, result)

vars == <<kind, status, attrs, pi, userStatus, accounts, groups, flaky, workers, settings,
         receivers, last>>
registry == <<kind, status, attrs, pi, userStatus, accounts>>

\* ------------------------------------------------------ directory client
\* A fault is the set of client operations that hit a transport error while
\* one group is processed; {} is a directory that answers every call.
ClientOps == {"group_exists", "create_group", "get_group_members",
              "add_user_to_group", "remove_user_from_group"}
NoFault == {}

\* No task is dispatched to any worker.
NoWorkers == <<>>

\* The settings are not read and no signal is connected.
NoSettings == <<>>
NoReceivers == <<>>

Call(op, user, group) == [op |-> op, user |-> user, group |-> group]

group_exists(dir, group, f) ==
    IF "group_exists" \in f THEN FALSE ELSE group \in DOMAIN dir

get_group_members(dir, group, f) ==
    IF "get_group_members" \in f THEN {}
    ELSE IF group \in DOMAIN dir THEN dir[group] ELSE {}

create_group(dir, group, f) ==
    IF "create_group" \in f \/ group \in DOMAIN dir THEN dir
    ELSE [g \in DOMAIN dir \cup {group} |-> IF g = group THEN {} ELSE dir[g]]

add_user_to_group(dir, user, group, f) ==
    IF "add_user_to_group" \in f THEN dir
    ELSE [g \in DOMAIN dir \cup {group} |->
            IF g = group
            THEN (IF g \in DOMAIN dir THEN dir[g] ELSE {}) \cup {user}
            ELSE dir[g]]

\* A variant of the removal that empties the group.
remove_user_from_group_clears(dir, user, group, f) ==
    IF "remove_user_from_group" \in f THEN dir
    ELSE IF group \notin DOMAIN dir THEN dir
    ELSE [dir EXCEPT ![group] = {}]

remove_user_from_group(dir, user, group, f) ==
    IF "remove_user_from_group" \in f THEN dir
    ELSE IF group \notin DOMAIN dir THEN dir
    ELSE IF user \notin dir[group] THEN dir
    ELSE [dir EXCEPT ![group] = @ \ {user}]

\* ------------------------------------------------------------- utils.py
\* Result of processing one group: the directory afterwards, the exception
\* raised ("none" when the function returns normally) and the client calls.
\* Variants of _add_user_to_group with a slip in them: one that adds without
\* reading the members, one that never makes the add call, one that
\* creates the group without asking whether it exists.
_add_user_to_group_unchecked(user, group, dir, f) ==
    LET exists == group_exists(dir, group, f)
        d1 == IF ~exists THEN create_group(dir, group, f) ELSE dir
    IN  [dir |-> add_user_to_group(d1, user, group, f), raised |-> "none",
         calls |-> <<Call("group_exists", user, group)>>
                   \o (IF ~exists THEN <<Call("create_group", user, group)>> ELSE <<>>)
                   \o <<Call("add_user_to_group", user, group)>>]

_add_user_to_group_skips_add(user, group, dir, f) ==
    LET exists == group_exists(dir, group, f)
        d1 == IF ~exists THEN create_group(dir, group, f) ELSE dir
        c1 == <<Call("group_exists", user, group)>>
              \o (IF ~exists THEN <<Call("create_group", user, group)>> ELSE <<>>)
              \o <<Call("get_group_members", user, group)>>
    IN  IF user \in get_group_members(d1, group, f)
        THEN [dir |-> d1, raised |-> "AlreadyMemberError", calls |-> c1]
        ELSE [dir |-> d1, raised |-> "none", calls |-> c1]

_add_user_to_group_always_creates(user, group, dir, f) ==
    LET d1 == create_group(dir, group, f)
        c1 == <<Call("create_group", user, group), Call("get_group_members", user, group)>>
    IN  IF user \in get_group_members(d1, group, f)
        THEN [dir |-> d1, raised |-> "AlreadyMemberError", calls |-> c1]
        ELSE [dir |-> add_user_to_group(d1, user, group, f), raised |-> "none",
              calls |-> c1 \o <<Call("add_user_to_group", user, group)>>]

\* A variant that makes the add call a second time when the first one failed.
_add_user_to_group_retries(user, group, dir, f) ==
    LET exists == group_exists(dir, group, f)
        d1 == IF ~exists THEN create_group(dir, group, f) ELSE dir
        c1 == <<Call("group_exists", user, group)>>
              \o (IF ~exists THEN <<Call("create_group", user, group)>> ELSE <<>>)
              \o <<Call("get_group_members", user, group)>>
        add == <<Call("add_user_to_group", user, group)>>
    IN  IF user \in get_group_members(d1, group, f)
        THEN [dir |-> d1, raised |-> "AlreadyMemberError", calls |-> c1]
        ELSE IF f # NoFault
        THEN [dir |-> d1, raised |-> IF "raise" \in f THEN "Exception" ELSE "none",
              calls |-> c1 \o add \o add]
        ELSE [dir |-> add_user_to_group(d1, user, group, f), raised |-> "none",
              calls |-> c1 \o add]

_add_user_to_group(user, group, dir, f) ==
    LET exists == group_exists(dir, group, f)
        d1 == IF ~exists THEN create_group(dir, group, f) ELSE dir
        c1 == <<Call("group_exists", user, group)>>
              \o (IF ~exists THEN <<Call("create_group", user, group)>> ELSE <<>>)
              \o <<Call("get_group_members", user, group)>>
        members == get_group_members(d1, group, f)
    IN  IF user \in members
        THEN [dir |-> d1, raised |-> "AlreadyMemberError", calls |-> c1]
        ELSE [dir |-> IF "raise" \in f THEN d1 ELSE add_user_to_group(d1, user, group, f),
              raised |-> IF "raise" \in f THEN "Exception" ELSE "none",
              calls |-> c1 \o <<Call("add_user_to_group", user, group)>>]

\* A variant of _remove_user_from_group that does not ask whether the group exists.
_remove_user_from_group_unchecked(user, group, dir, f) ==
    LET c2 == <<Call("get_group_members", user, group)>>
    IN  IF user \notin get_group_members(dir, group, f)
        THEN [dir |-> dir, raised |-> "NotMemberError", calls |-> c2]
        ELSE [dir |-> remove_user_from_group(dir, user, group, f), raised |-> "none",
              calls |-> c2 \o <<Call("remove_user_from_group", user, group)>>]

_remove_user_from_group(user, group, dir, f) ==
    LET exists == group_exists(dir, group, f)
        c1 == <<Call("group_exists", user, group)>>
        c2 == c1 \o <<Call("get_group_members", user, group)>>
        members == get_group_members(dir, group, f)
    IN  IF ~exists
        THEN [dir |-> dir, raised |-> "GroupDoesNotExistError", calls |-> c1]
        ELSE IF user \notin members
        THEN [dir |-> dir, raised |-> "NotMemberError", calls |-> c2]
        ELSE [dir |-> IF "raise" \in f THEN dir
                      ELSE remove_user_from_group(dir, user, group, f),
              raised |-> IF "raise" \in f THEN "Exception" ELSE "none",
              calls |-> c2 \o <<Call("remove_user_from_group", user, group)>>]

\* The error callbacks the tasks pass. Both take the association's primary
\* key; the synchronizer invokes its callback with no argument.
NoCallback == "none"
Callbacks == {"set_project_user_status_to_pending",
              "set_allocation_user_status_to_error"}

\* error_callback(): the call made at utils.py:82 and utils.py:103. A callback
\* that requires the primary key raises TypeError when called without it.
error_callback(cb) == IF cb \in Callbacks THEN "TypeError" ELSE "none"

\* Outcome recorded (logged) for one group of the set.
Outcome(user, group, what) == [user |-> user, group |-> group, what |-> what]

\* The orders in which a Python set of groups can be iterated.
Orders(S) == {o \in [1..Cardinality(S) -> S] : \A i, j \in 1..Cardinality(S) : i # j => o[i] # o[j]}

\* State of the for-loop of add_user_to_group_set / remove_user_from_group_set.
LoopStart(dir) == [dir |-> dir, calls |-> <<>>, log |-> <<>>, callbacks |-> 0, raised |-> "none"]

\* The except / else clause that handles what _add_user_to_group raised.
\* A variant has no clause for AlreadyMemberError.
add_outcome_no_benign(raised) ==
    IF raised # "none" THEN "error" ELSE "added"

add_outcome(raised) ==
    IF raised = "AlreadyMemberError" THEN "already_member"
    ELSE IF raised # "none" THEN "error" ELSE "added"

RECURSIVE add_loop(_, _, _, _, _, _)
add_loop(user, order, i, faults, cb, acc) ==
    IF i > Len(order) \/ acc.raised # "none" THEN acc
    ELSE LET r == _add_user_to_group(user, order[i], acc.dir, faults[order[i]])
             what == add_outcome(r.raised)
             called == what = "error" /\ cb # NoCallback
         IN  add_loop(user, order, i + 1, faults, cb,
                 [dir |-> r.dir,
                  calls |-> acc.calls \o r.calls,
                  log |-> Append(acc.log, Outcome(user, order[i], what)),
                  callbacks |-> acc.callbacks + (IF called THEN 1 ELSE 0),
                  raised |-> IF called THEN error_callback(cb) ELSE "none"])

add_user_to_group_set(user, order, dir, faults, cb) ==
    add_loop(user, order, 1, faults, cb, LoopStart(dir))

\* The except / else clause that handles what _remove_user_from_group raised.
remove_outcome(raised) ==
    IF raised = "NotMemberError" THEN "not_member"
    ELSE IF raised = "GroupDoesNotExistError" THEN "no_group"
    ELSE IF raised # "none" THEN "error" ELSE "removed"

RECURSIVE remove_loop(_, _, _, _, _, _)
remove_loop(user, order, i, faults, cb, acc) ==
    IF i > Len(order) \/ acc.raised # "none" THEN acc
    ELSE LET r == _remove_user_from_group(user, order[i], acc.dir, faults[order[i]])
             what == remove_outcome(r.raised)
             called == what = "error" /\ cb # NoCallback
         IN  remove_loop(user, order, i + 1, faults, cb,
                 [dir |-> r.dir,
                  calls |-> acc.calls \o r.calls,
                  log |-> Append(acc.log, Outcome(user, order[i], what)),
                  callbacks |-> acc.callbacks + (IF called THEN 1 ELSE 0),
                  raised |-> IF called THEN error_callback(cb) ELSE "none"])

remove_user_from_group_set(user, order, dir, faults, cb) ==
    remove_loop(user, order, 1, faults, cb, LoopStart(dir))

\* ---------------------------------------------- group resolver (utils.py)
\* Allocation.get_attribute_list / Project.get_attribute_list for the
\* configured attribute name.
get_attribute_list(e) == attrs[e]

\* A variant that does not filter on the allocation's status.
collect_other_allocation_user_groups_any_allocation(user, current_allocation_id) ==
    UNION {get_attribute_list(a) : a \in {x \in Entities \ {current_allocation_id} :
                /\ userStatus[x][user] = "Active"
                /\ attrs[x] # {}}}

collect_other_allocation_user_groups(user, current_allocation_id) ==
    UNION {get_attribute_list(a) : a \in {x \in Entities \ {current_allocation_id} :
                /\ userStatus[x][user] = "Active"
                /\ status[x] = "Active"
                /\ attrs[x] # {}}}

\* A variant that filters on the wrong association status.
collect_other_project_user_groups_wrong_status(user, current_project_id) ==
    UNION {get_attribute_list(p) : p \in {x \in Entities \ {current_project_id} :
                /\ userStatus[x][user] = "Removed"
                /\ status[x] = "Active"
                /\ attrs[x] # {}}}

collect_other_project_user_groups(user, current_project_id) ==
    UNION {get_attribute_list(p) : p \in {x \in Entities \ {current_project_id} :
                /\ userStatus[x][user] = "Active"
                /\ status[x] = "Active"
                /\ attrs[x] # {}}}

\* ------------------------------------------------------------- tasks.py
\* An invocation the task makes on utils: the function, its user and group
\* set (for collect_other_*: the set returned) and the error callback.
Invocation(fn, user, gs, cb) == [fn |-> fn, user |-> user, groups |-> gs, cb |-> cb]

\* What can go wrong while one group is processed: nothing, the mutating
\* call raising an exception that is not an IOError, or the mutating call
\* hitting a transport error, which the client reports by returning False.
TransportError == {"add_user_to_group", "remove_user_from_group"}
Faults == {NoFault, {"raise"}, TransportError}

\* Faults a behaviour may inject while a task runs: none unless flaky, and
\* then on one group at most.
FaultChoices ==
    IF flaky
    THEN {f \in [GroupNames -> Faults] :
            \A g, h \in GroupNames : (f[g] # NoFault /\ f[h] # NoFault) => g = h}
    ELSE {[g \in GroupNames |-> NoFault]}

\* The options of a sync_users pass; NoFilter: the option is not given.
NoFilter == 0
Options(dry_run, sync_to, username, group) ==
    [dry_run |-> dry_run, sync_to |-> sync_to, username |-> username, group |-> group]
NoOptions == Options(FALSE, FALSE, NoFilter, NoFilter)

\* The record kept of the last operation: the task or function, its
\* arguments, what it returned, the warning or info message it logged
\* before returning early, the directory client calls it made, the
\* invocations it made on utils, the exception it let escape, the
\* directory as it was when the operation started, the outcome the
\* synchronizer logged for each group it processed and the number of times
\* it called its error callback; for a sync_users pass also its options and
\* the entity records it collated.
Done(op, e, u, ret, logged, calls, trace, raised) ==
    [op |-> op, entity |-> e, user |-> u, ret |-> ret, logged |-> logged,
     calls |-> calls, trace |-> trace, raised |-> raised, before |-> groups,
     log |-> <<>>, callbacks |-> 0, options |-> NoOptions, collated |-> <<>>]

\* The record of an operation that ran the synchronizer with result r.
Synced(done, r) == [done EXCEPT !.log = r.log, !.callbacks = r.callbacks]

\* A task that logs a message and returns before touching utils or the directory.
Return(op, e, u, ret, logged) ==
    /\ last' = Done(op, e, u, ret, logged, <<>>, <<>>, "none")
    /\ UNCHANGED groups

\* The checks a task makes before it computes anything: the message of
\* the first check that fails, "ok" when all pass.
add_allocation_user_checks(e, u) ==
    IF status[e] # "Active" THEN "Allocation is not active. Will not add user"
    ELSE IF userStatus[e][u] # "Active"
    THEN "Allocation user status is not 'Active'. Will not add user."
    ELSE IF get_attribute_list(e) = {}
    THEN "Allocation does not have any groups. Nothing to add"
    ELSE "ok"

\* A variant that does not look at the project user's status.
add_project_user_checks_any_user(e, u) ==
    IF status[e] # "Active" THEN "Project is not active. Will not add user"
    ELSE IF get_attribute_list(e) = {}
    THEN "Project does not have any groups. Nothing to add"
    ELSE "ok"

add_project_user_checks(e, u) ==
    IF status[e] # "Active" THEN "Project is not active. Will not add user"
    ELSE IF userStatus[e][u] # "Active"
    THEN "Project user status is not 'Active'. Will not add user."
    ELSE IF get_attribute_list(e) = {}
    THEN "Project does not have any groups. Nothing to add"
    ELSE "ok"

\* A variant that does not look at the allocation's status.
remove_allocation_user_checks_any_status(e, u) ==
    IF userStatus[e][u] # "Removed"
    THEN "Allocation user status is not 'Removed'. Will not remove user from group."
    ELSE IF get_attribute_list(e) = {}
    THEN "Allocation does not have any groups. Nothing to remove"
    ELSE "ok"

remove_allocation_user_checks(e, u) ==
    IF status[e] \notin {"Active", "Pending", "Inactive (Renewed)"}
    THEN "Allocation is not active or pending. Will not remove user from group"
    ELSE IF userStatus[e][u] # "Removed"
    THEN "Allocation user status is not 'Removed'. Will not remove user from group."
    ELSE IF get_attribute_list(e) = {}
    THEN "Allocation does not have any groups. Nothing to remove"
    ELSE "ok"

\* A variant that checks the user's status before the project's.
remove_project_user_checks_user_first(e, u) ==
    IF userStatus[e][u] # "Removed"
    THEN "Project user status is not 'Removed'. Will not remove user from group."
    ELSE IF get_attribute_list(e) = {}
    THEN "Project does not have any groups. Nothing to remove"
    ELSE IF status[e] \in {"Archived"}
    THEN "Project is archived. Will not remove user from group"
    ELSE "ok"

remove_project_user_checks(e, u) ==
    IF status[e] \in {"Archived"}
    THEN "Project is archived. Will not remove user from group"
    ELSE IF userStatus[e][u] # "Removed"
    THEN "Project user status is not 'Removed'. Will not remove user from group."
    ELSE IF get_attribute_list(e) = {}
    THEN "Project does not have any groups. Nothing to remove"
    ELSE "ok"

\* A variant that also runs for projects that are not Active any more.
remove_all_project_users_checks_inactive(e) ==
    IF status[e] = "Active"
    THEN "Project is not archived. Will not remove users from groups"
    ELSE IF get_attribute_list(e) = {}
    THEN "Project does not have any groups. Nothing to remove"
    ELSE "ok"

remove_all_project_users_checks(e) ==
    IF status[e] # "Archived"
    THEN "Project is not archived. Will not remove users from groups"
    ELSE IF get_attribute_list(e) = {}
    THEN "Project does not have any groups. Nothing to remove"
    ELSE "ok"

NoGroupsToRemove == "No groups to remove."

add_allocation_user_to_group(e, u) ==
    /\ kind = "allocation"
    /\ userStatus[e][u] # "None"
    /\ LET op == "add_allocation_user_to_group"
           checks == add_allocation_user_checks(e, u)
           cb == "set_allocation_user_status_to_error"
       IN  IF checks # "ok" THEN Return(op, e, u, "False", checks)
           ELSE \E order \in Orders(get_attribute_list(e)), faults \in FaultChoices :
                  LET r == add_user_to_group_set(u, order, groups, faults, cb)
                  IN  /\ groups' = r.dir
                      /\ last' = Synced(Done(op, e, u, IF r.raised = "none" THEN "True" ELSE "raised",
                                      "none", r.calls,
                                      <<Invocation("add_user_to_group_set", u,
                                                   get_attribute_list(e), cb)>>,
                                      r.raised), r)
    /\ UNCHANGED <<registry, flaky, workers, settings, receivers>>

add_project_user_to_group(e, u) ==
    /\ kind = "project"
    /\ userStatus[e][u] # "None"
    /\ LET op == "add_project_user_to_group"
           checks == add_project_user_checks(e, u)
           cb == "set_project_user_status_to_pending"
       IN  IF checks # "ok" THEN Return(op, e, u, "None", checks)
           ELSE \E order \in Orders(get_attribute_list(e)), faults \in FaultChoices :
                  LET r == add_user_to_group_set(u, order, groups, faults, cb)
                  IN  /\ groups' = r.dir
                      /\ last' = Synced(Done(op, e, u, IF r.raised = "none" THEN "None" ELSE "raised",
                                      "none", r.calls,
                                      <<Invocation("add_user_to_group_set", u,
                                                   get_attribute_list(e), cb)>>,
                                      r.raised), r)
    /\ UNCHANGED <<registry, flaky, workers, settings, receivers>>

remove_allocation_user_from_group(e, u) ==
    /\ kind = "allocation"
    /\ userStatus[e][u] # "None"
    /\ LET op == "remove_allocation_user_from_group"
           checks == remove_allocation_user_checks(e, u)
           cb == "set_allocation_user_status_to_error"
           other_groups == collect_other_allocation_user_groups(u, e)
           group_diff == get_attribute_list(e) \ other_groups
           collected == Invocation("collect_other_allocation_user_groups", u,
                                   other_groups, NoCallback)
       IN  IF checks # "ok" THEN Return(op, e, u, "None", checks)
           ELSE IF group_diff = {}
           THEN /\ last' = Done(op, e, u, "None", NoGroupsToRemove, <<>>, <<collected>>, "none")
                /\ UNCHANGED groups
           ELSE \E order \in Orders(group_diff), faults \in FaultChoices :
                  LET r == remove_user_from_group_set(u, order, groups, faults, cb)
                  IN  /\ groups' = r.dir
                      /\ last' = Synced(Done(op, e, u, IF r.raised = "none" THEN "None" ELSE "raised",
                                      "none", r.calls,
                                      <<collected,
                                        Invocation("remove_user_from_group_set", u, group_diff, cb)>>,
                                      r.raised), r)
    /\ UNCHANGED <<registry, flaky, workers, settings, receivers>>

remove_project_user_from_group(e, u) ==
    /\ kind = "project"
    /\ userStatus[e][u] # "None"
    /\ LET op == "remove_project_user_from_group"
           checks == remove_project_user_checks(e, u)
           cb == "set_project_user_status_to_pending"
           other_groups == collect_other_project_user_groups(u, e)
           group_diff == get_attribute_list(e) \ other_groups
           collected == Invocation("collect_other_project_user_groups", u,
                                   other_groups, NoCallback)
       IN  IF checks # "ok" THEN Return(op, e, u, "None", checks)
           ELSE IF group_diff = {}
           THEN /\ last' = Done(op, e, u, "None", NoGroupsToRemove, <<>>, <<collected>>, "none")
                /\ UNCHANGED groups
           ELSE \E order \in Orders(group_diff), faults \in FaultChoices :
                  LET r == remove_user_from_group_set(u, order, groups, faults, cb)
                  IN  /\ groups' = r.dir
                      /\ last' = Synced(Done(op, e, u, IF r.raised = "none" THEN "None" ELSE "raised",
                                      "none", r.calls,
                                      <<collected,
                                        Invocation("remove_user_from_group_set", u, group_diff, cb)>>,
                                      r.raised), r)
    /\ UNCHANGED <<registry, flaky, workers, settings, receivers>>

\* The iteration order of the set S under the order perm of all group names.
OrderOf(S, perm) ==
    LET In(g) == g \in S IN SelectSeq(perm, In)

\* One user of the archive cascade: protected set, difference, removal.
\* acc: the directory, the client calls, the invocations, the exception, the
\* logged outcomes and the callback calls so far.
remove_one_user(project_pk, user, cb, perm, faults, acc) ==
    LET other_groups == collect_other_project_user_groups(user, project_pk)
        group_diff == get_attribute_list(project_pk) \ other_groups
        collected == Invocation("collect_other_project_user_groups", user,
                                other_groups, NoCallback)
        r == remove_user_from_group_set(user, OrderOf(group_diff, perm), acc.dir, faults, cb)
    IN  IF group_diff = {}
        THEN [acc EXCEPT !.trace = Append(@, collected)]
        ELSE [dir |-> r.dir,
              calls |-> acc.calls \o r.calls,
              trace |-> acc.trace \o <<collected,
                           Invocation("remove_user_from_group_set", user, group_diff, cb)>>,
              raised |-> r.raised,
              log |-> acc.log \o r.log,
              callbacks |-> acc.callbacks + r.callbacks]

RECURSIVE remove_all_loop(_, _, _, _, _, _)
remove_all_loop(project_pk, project_users, i, perm, faults, acc) ==
    IF i > Len(project_users) \/ acc.raised # "none" THEN acc
    ELSE remove_all_loop(project_pk, project_users, i + 1, perm, faults,
             remove_one_user(project_pk, project_users[i],
                             "set_project_user_status_to_pending", perm, faults, acc))

\* The error callback handed to the removal of the PI: none. A variant
\* hands it the callback of the ordinary project users.
pi_error_callback_pending == "set_project_user_status_to_pending"

pi_error_callback == NoCallback

\* ProjectUser.objects.filter(project__pk=project_pk): the users holding an
\* association on the project, whatever its status.
\* A variant that keeps only the Active associations.
project_users_of_active(project_pk) == {u \in Users : userStatus[project_pk][u] = "Active"}

project_users_of(project_pk) == {u \in Users : userStatus[project_pk][u] # "None"}

remove_all_project_users_from_groups(e) ==
    /\ kind = "project"
    /\ LET op == "remove_all_project_users_from_groups"
           checks == remove_all_project_users_checks(e)
       IN  IF checks # "ok" THEN Return(op, e, 0, "None", checks)
           ELSE \E project_users \in Orders(project_users_of(e)),
                   perm \in Orders(GroupNames), faults \in FaultChoices :
                  LET start == [dir |-> groups, calls |-> <<>>, trace |-> <<>>, raised |-> "none",
                                log |-> <<>>, callbacks |-> 0]
                      members == remove_all_loop(e, project_users, 1, perm, faults, start)
                      r == IF members.raised # "none" THEN members
                           ELSE remove_one_user(e, pi[e], pi_error_callback, perm, faults, members)
                  IN  /\ groups' = r.dir
                      /\ last' = Synced(Done(op, e, 0, IF r.raised = "none" THEN "None" ELSE "raised",
                                             "none", r.calls, r.trace, r.raised), r)
    /\ UNCHANGED <<registry, flaky, workers, settings, receivers>>

\* ------------------------------------------------------ specification
Directories == UNION {[D -> SUBSET Users] : D \in SUBSET GroupNames}

\* The directory a behaviour starts from: no group at all, or every group
\* present, with nobody or with everybody in it. The tasks reach the others.
InitialDirectories ==
    {<<>>} \cup {[g \in GroupNames |-> S] : S \in {{}, Users}}

Statuses(k) == IF k = "project" THEN ProjectStatuses ELSE AllocationStatuses

\* Entity 1 takes every status; the other entities are Active or not, which
\* is all that the tasks of another entity read of them.
InitialStatuses(k) ==
    {s \in [Entities -> Statuses(k)] : \A e \in Entities \ {1} : s[e] \in {"Active", "New"}}

\* Every user holds an association, Active or Removed, on every entity,
\* except that the last user may hold none on entity 1. To the tasks of
\* another entity a missing association reads as a Removed one.
InitialUserStatuses ==
    {s \in [Entities -> [Users -> {"None", "Active", "Removed"}]] :
        \A e \in Entities, u \in Users :
            s[e][u] = "None" => (e = 1 /\ u = NumUsers)}

\* Entity 1 declares any set of groups; the other entities declare at least
\* one, the tasks reading an entity without groups as they read one that is
\* not Active.
InitialAttributes ==
    {a \in [Entities -> SUBSET GroupNames] : \A e \in Entities \ {1} : a[e] # {}}

Idle == Done("none", 0, 0, "None", "none", <<>>, <<>>, "none")

Init ==
    /\ kind \in {"project", "allocation"}
    /\ status \in InitialStatuses(kind)
    /\ attrs \in InitialAttributes
    /\ pi = [e \in Entities |-> 1]
    /\ accounts = Users
    /\ userStatus \in InitialUserStatuses
    /\ groups \in InitialDirectories
    /\ flaky = FALSE
    /\ settings = NoSettings
    /\ receivers = NoReceivers
    /\ workers = NoWorkers
    /\ last = Idle

Next ==
    \/ \E e \in Entities, u \in Users : add_allocation_user_to_group(e, u)
    \/ \E e \in Entities, u \in Users : add_project_user_to_group(e, u)
    \/ \E e \in Entities, u \in Users : remove_allocation_user_from_group(e, u)
    \/ \E e \in Entities, u \in Users : remove_project_user_from_group(e, u)
    \/ \E e \in Entities : remove_all_project_users_from_groups(e)

Spec == Init /\ [][Next]_vars

\* ------------------------------------- the tasks against a failing directory
\* The same tasks when directory calls may fail. Entity 1 declares every
\* group and is Active (or, for a project, Archived); any user may lack an
\* association on it, the PI included. The other entities are Active and
\* declare the last group.
InitialStatusesFlaky(k) ==
    {s \in [Entities -> Statuses(k)] :
        /\ s[1] \in (IF k = "project" THEN {"Active", "Archived"} ELSE {"Active"})
        /\ \A e \in Entities \ {1} : s[e] = "Active"}

InitialUserStatusesFlaky ==
    {s \in [Entities -> [Users -> {"None", "Active", "Removed"}]] :
        \A e \in Entities, u \in Users : s[e][u] = "None" => e = 1}

InitFlaky ==
    /\ kind \in {"project", "allocation"}
    /\ status \in InitialStatusesFlaky(kind)
    /\ attrs = [e \in Entities |-> IF e = 1 THEN GroupNames ELSE {NumGroups}]
    /\ pi = [e \in Entities |-> 1]
    /\ accounts = Users
    /\ userStatus \in InitialUserStatusesFlaky
    /\ groups \in InitialDirectories
    /\ flaky = TRUE
    /\ settings = NoSettings
    /\ receivers = NoReceivers
    /\ workers = NoWorkers
    /\ last = Idle

SpecFlaky == InitFlaky /\ [][Next]_vars

\* ----------------------------------------- the synchronizer called directly
\* The functions of utils.py called on their own, as tests/test_utils.py does,
\* against any directory.
Invoke_add_user_to_group(user, group) ==
    \E faults \in FaultChoices :
      LET r == _add_user_to_group(user, group, groups, faults[group])
      IN  /\ groups' = r.dir
          /\ last' = Done("_add_user_to_group", 0, user, "None", "none", r.calls,
                          <<Invocation("_add_user_to_group", user, {group}, NoCallback)>>,
                          r.raised)
          /\ UNCHANGED <<registry, flaky, workers, settings, receivers>>

Invoke_remove_user_from_group(user, group) ==
    \E faults \in FaultChoices :
      LET r == _remove_user_from_group(user, group, groups, faults[group])
      IN  /\ groups' = r.dir
          /\ last' = Done("_remove_user_from_group", 0, user, "None", "none", r.calls,
                          <<Invocation("_remove_user_from_group", user, {group}, NoCallback)>>,
                          r.raised)
          /\ UNCHANGED <<registry, flaky, workers, settings, receivers>>

Invoke_add_user_to_group_set(user, gs, cb) ==
    \E order \in Orders(gs), faults \in FaultChoices :
      LET r == add_user_to_group_set(user, order, groups, faults, cb)
      IN  /\ groups' = r.dir
          /\ last' = [Synced(Done("add_user_to_group_set", 0, user, "None", "none", r.calls,
                                  <<Invocation("add_user_to_group_set", user, gs, cb)>>,
                                  r.raised), r) EXCEPT !.ret = r.log]
          /\ UNCHANGED <<registry, flaky, workers, settings, receivers>>

Invoke_remove_user_from_group_set(user, gs, cb) ==
    \E order \in Orders(gs), faults \in FaultChoices :
      LET r == remove_user_from_group_set(user, order, groups, faults, cb)
      IN  /\ groups' = r.dir
          /\ last' = [Synced(Done("remove_user_from_group_set", 0, user, "None", "none", r.calls,
                                  <<Invocation("remove_user_from_group_set", user, gs, cb)>>,
                                  r.raised), r) EXCEPT !.ret = r.log]
          /\ UNCHANGED <<registry, flaky, workers, settings, receivers>>

InitUtils ==
    /\ kind = "project"
    /\ status = [e \in Entities |-> "Active"]
    /\ attrs = [e \in Entities |-> {}]
    /\ pi = [e \in Entities |-> 1]
    /\ accounts = Users
    /\ userStatus = [e \in Entities |-> [u \in Users |-> "None"]]
    /\ groups \in Directories
    /\ flaky = FALSE
    /\ settings = NoSettings
    /\ receivers = NoReceivers
    /\ workers = NoWorkers
    /\ last = Idle

NextUtils ==
    \/ \E u \in Users, g \in GroupNames : Invoke_add_user_to_group(u, g)
    \/ \E u \in Users, g \in GroupNames : Invoke_remove_user_from_group(u, g)
    \/ \E u \in Users, gs \in SUBSET GroupNames, cb \in Callbacks \cup {NoCallback} :
          Invoke_add_user_to_group_set(u, gs, cb)
    \/ \E u \in Users, gs \in SUBSET GroupNames, cb \in Callbacks \cup {NoCallback} :
          Invoke_remove_user_from_group_set(u, gs, cb)

SpecUtils == InitUtils /\ [][NextUtils]_vars

\* The same functions against a directory whose calls may fail.
InitUtilsFlaky ==
    /\ kind = "project"
    /\ status = [e \in Entities |-> "Active"]
    /\ attrs = [e \in Entities |-> {}]
    /\ pi = [e \in Entities |-> 1]
    /\ accounts = Users
    /\ userStatus = [e \in Entities |-> [u \in Users |-> "None"]]
    /\ groups \in InitialDirectories
    /\ flaky = TRUE
    /\ settings = NoSettings
    /\ receivers = NoReceivers
    /\ workers = NoWorkers
    /\ last = Idle

SpecUtilsFlaky == InitUtilsFlaky /\ [][NextUtils]_vars

\* The same functions against a directory whose reads may fail: the client
\* answers False to group_exists, or an empty member list to
\* get_group_members, when the query hits a transport error
\* (grouper_user_management_client.py:74-86). One group at most is hit.
ReadFaults == {NoFault, {"group_exists"}, {"get_group_members"}}
ReadFaultChoices ==
    {f \in [GroupNames -> ReadFaults] :
        \A g, h \in GroupNames : (f[g] # NoFault /\ f[h] # NoFault) => g = h}

Read_add_user_to_group_set(user, gs, cb) ==
    \E order \in Orders(gs), faults \in ReadFaultChoices :
      LET r == add_user_to_group_set(user, order, groups, faults, cb)
      IN  /\ groups' = r.dir
          /\ last' = [Synced(Done("add_user_to_group_set", 0, user, "None", "none", r.calls,
                                  <<Invocation("add_user_to_group_set", user, gs, cb)>>,
                                  r.raised), r) EXCEPT !.ret = r.log]
          /\ UNCHANGED <<registry, flaky, workers, settings, receivers>>

Read_remove_user_from_group_set(user, gs, cb) ==
    \E order \in Orders(gs), faults \in ReadFaultChoices :
      LET r == remove_user_from_group_set(user, order, groups, faults, cb)
      IN  /\ groups' = r.dir
          /\ last' = [Synced(Done("remove_user_from_group_set", 0, user, "None", "none", r.calls,
                                  <<Invocation("remove_user_from_group_set", user, gs, cb)>>,
                                  r.raised), r) EXCEPT !.ret = r.log]
          /\ UNCHANGED <<registry, flaky, workers, settings, receivers>>

NextUtilsReads ==
    \/ \E u \in Users, gs \in SUBSET GroupNames, cb \in Callbacks \cup {NoCallback} :
          Read_add_user_to_group_set(u, gs, cb)
    \/ \E u \in Users, gs \in SUBSET GroupNames, cb \in Callbacks \cup {NoCallback} :
          Read_remove_user_from_group_set(u, gs, cb)

SpecUtilsReads == InitUtilsFlaky /\ [][NextUtilsReads]_vars

\* ------------------------------------------ the group resolver called directly
\* collect_other_*_user_groups called on its own against any registry: the
\* entities take every status of their kind, the first user every association
\* status on every entity; the other users are Active everywhere.
AssociationStatuses == {"None", "New", "Active", "Pending", "Removed"}

Invoke_collect_other_allocation_user_groups(user, current_allocation_id) ==
    /\ kind = "allocation"
    /\ LET other_groups == collect_other_allocation_user_groups(user, current_allocation_id)
       IN  last' = Done("collect_other_allocation_user_groups", current_allocation_id, user,
                        other_groups, "none", <<>>,
                        <<Invocation("collect_other_allocation_user_groups", user,
                                     other_groups, NoCallback)>>, "none")
    /\ UNCHANGED <<registry, groups, flaky, workers, settings, receivers>>

Invoke_collect_other_project_user_groups(user, current_project_id) ==
    /\ kind = "project"
    /\ LET other_groups == collect_other_project_user_groups(user, current_project_id)
       IN  last' = Done("collect_other_project_user_groups", current_project_id, user,
                        other_groups, "none", <<>>,
                        <<Invocation("collect_other_project_user_groups", user,
                                     other_groups, NoCallback)>>, "none")
    /\ UNCHANGED <<registry, groups, flaky, workers, settings, receivers>>

InitResolver ==
    /\ kind \in {"project", "allocation"}
    /\ status \in [Entities -> Statuses(kind)]
    /\ attrs \in [Entities -> SUBSET GroupNames]
    /\ pi = [e \in Entities |-> 1]
    /\ accounts = Users
    /\ userStatus \in {s \in [Entities -> [Users -> AssociationStatuses]] :
                          \A e \in Entities, u \in Users \ {1} : s[e][u] = "Active"}
    /\ groups = <<>>
    /\ flaky = FALSE
    /\ settings = NoSettings
    /\ receivers = NoReceivers
    /\ workers = NoWorkers
    /\ last = Idle

NextResolver ==
    \/ \E u \in Users, e \in Entities : Invoke_collect_other_allocation_user_groups(u, e)
    \/ \E u \in Users, e \in Entities : Invoke_collect_other_project_user_groups(u, e)

SpecResolver == InitResolver /\ [][NextResolver]_vars

\* ------------------------------------------- management/commands/sync_users.py
\* One collated entity record: the entity, its groups, its Active users
\* (and, for a project, its PI).
EntityRecord(id, gs, users) == [id |-> id, groups |-> gs, users |-> users]

\* Project.objects.filter(status__name="Active", projectattribute__...): the
\* Active entities that carry the group attribute.
entities_with_groups == {e \in Entities : status[e] = "Active" /\ attrs[e] # {}}

\* The result of a collation: None when the function falls off its end,
\* else the list it returns.
Collated(none, records) == [none |-> none, records |-> records]

\* The for-loop of collate_project_user_data from the i-th project on: a
\* project is skipped by the group filter or for want of groups; the
\* return statement stands inside the loop body, after the append.
\* A variant that does not apply the group filter.
RECURSIVE collate_project_user_data_unfiltered(_, _, _)
collate_project_user_data_unfiltered(projects_with_groups, i, group_specified) ==
    IF i > Len(projects_with_groups) THEN Collated(TRUE, <<>>)
    ELSE LET project == projects_with_groups[i]
             gs == get_attribute_list(project)
             project_users == {u \in Users : userStatus[project][u] = "Active"}
         IN  IF gs = {}
             THEN collate_project_user_data_unfiltered(projects_with_groups, i + 1, group_specified)
             ELSE Collated(FALSE, <<EntityRecord(project, gs, project_users \cup {pi[project]})>>)

RECURSIVE collate_project_user_data(_, _, _)
collate_project_user_data(projects_with_groups, i, group_specified) ==
    IF i > Len(projects_with_groups) THEN Collated(TRUE, <<>>)
    ELSE LET project == projects_with_groups[i]
             gs == get_attribute_list(project)
             project_users == {u \in Users : userStatus[project][u] = "Active"}
         IN  IF group_specified # NoFilter /\ group_specified \notin gs
             THEN collate_project_user_data(projects_with_groups, i + 1, group_specified)
             ELSE IF gs = {}
             THEN collate_project_user_data(projects_with_groups, i + 1, group_specified)
             ELSE Collated(FALSE, <<EntityRecord(project, gs, project_users \cup {pi[project]})>>)

RECURSIVE collate_allocation_user_data(_, _, _)
collate_allocation_user_data(allocations_with_groups, i, group_specified) ==
    IF i > Len(allocations_with_groups) THEN Collated(TRUE, <<>>)
    ELSE LET allocation == allocations_with_groups[i]
             gs == get_attribute_list(allocation)
             allocation_users == {u \in Users : userStatus[allocation][u] = "Active"}
         IN  IF group_specified # NoFilter /\ group_specified \notin gs
             THEN collate_allocation_user_data(allocations_with_groups, i + 1, group_specified)
             ELSE IF gs = {}
             THEN collate_allocation_user_data(allocations_with_groups, i + 1, group_specified)
             ELSE Collated(FALSE, <<EntityRecord(allocation, gs, allocation_users)>>)

\* collate_external_user_data: the members the directory reports for each
\* group of the set; a group whose query raises is left out.
collate_external_user_data(group_set, dir, faults) ==
    [g \in {h \in group_set : "raise" \notin faults[h]} |-> get_group_members(dir, g, faults[g])]

\* One Difference Record.
Difference(id, group, missing_from_external, missing_from_coldfront) ==
    [id |-> id, group |-> group,
     missing_from_external |-> missing_from_external,
     missing_from_coldfront |-> missing_from_coldfront]

\* The records compare_coldfront_to_external appends for one entry, its
\* groups taken in the order perm. A variant appends a record for every
\* group, whether the two sides differ or not.
differences_of_always(entry, external, perm) ==
    LET gs == OrderOf(entry.groups, perm)
        external_members(g) == IF g \in DOMAIN external THEN external[g] ELSE {}
    IN  [i \in 1..Len(gs) |->
            Difference(entry.id, gs[i], entry.users \ external_members(gs[i]),
                       external_members(gs[i]) \ entry.users)]

differences_of(entry, external, perm) ==
    LET gs == OrderOf(entry.groups, perm)
        external_members(g) == IF g \in DOMAIN external THEN external[g] ELSE {}
        all == [i \in 1..Len(gs) |->
                  Difference(entry.id, gs[i], entry.users \ external_members(gs[i]),
                             external_members(gs[i]) \ entry.users)]
        differs(d) == d.missing_from_external # {} \/ d.missing_from_coldfront # {}
    IN  SelectSeq(all, differs)

RECURSIVE compare_coldfront_to_external(_, _, _, _)
compare_coldfront_to_external(coldfront_users_and_groups, i, external, perm) ==
    IF i > Len(coldfront_users_and_groups) THEN <<>>
    ELSE differences_of(coldfront_users_and_groups[i], external, perm)
         \o compare_coldfront_to_external(coldfront_users_and_groups, i + 1, external, perm)

\* The users of a set that pass the username filter, in the order uperm.
\* A variant stops after the first of them.
Filtered_first_only(S, username_specified, uperm) ==
    LET keep(u) == u \in S /\ (username_specified = NoFilter \/ u = username_specified)
        kept == SelectSeq(uperm, keep)
    IN  IF kept = <<>> THEN <<>> ELSE <<Head(kept)>>

Filtered_no_filter(S, username_specified, uperm) ==
    LET keep(u) == u \in S
    IN  SelectSeq(uperm, keep)

Filtered(S, username_specified, uperm) ==
    LET keep(u) == u \in S /\ (username_specified = NoFilter \/ u = username_specified)
    IN  SelectSeq(uperm, keep)

\* client.add_user_to_group / client.remove_user_from_group for the users of
\* one difference; an exception that is not an IOError leaves the loop.
RECURSIVE apply_calls(_, _, _, _, _, _)
apply_calls(op, users, i, group, f, acc) ==
    IF i > Len(users) \/ acc.raised # "none" THEN acc
    ELSE apply_calls(op, users, i + 1, group, f,
            [dir |-> IF "raise" \in f THEN acc.dir
                     ELSE IF op = "add_user_to_group"
                     THEN add_user_to_group(acc.dir, users[i], group, f)
                     ELSE remove_user_from_group(acc.dir, users[i], group, f),
             calls |-> Append(acc.calls, Call(op, users[i], group)),
             raised |-> IF "raise" \in f THEN "Exception" ELSE "none"])

\* handle, sync_to: for each difference the adds, then the removes.
RECURSIVE sync_to_external(_, _, _, _, _, _)
sync_to_external(differences, i, username_specified, uperm, faults, acc) ==
    IF i > Len(differences) \/ acc.raised # "none" THEN acc
    ELSE LET diff == differences[i]
             f == faults[diff.group]
             adds == Filtered(diff.missing_from_external, username_specified, uperm)
             removes == Filtered(diff.missing_from_coldfront, username_specified, uperm)
             added == apply_calls("add_user_to_group", adds, 1, diff.group, f, acc)
             removed == apply_calls("remove_user_from_group", removes, 1, diff.group, f, added)
         IN  sync_to_external(differences, i + 1, username_specified, uperm, faults, removed)

\* Assigning the string "Active" / "Removed" to the status foreign key of an
\* association: Django refuses a value that is not a status row. A variant
\* accepts the string.
assign_status_accepted(value) == value

assign_status(value) == "ValueError"

\* handle, sync from the directory, for one difference: every user missing
\* from the registry gets a User record (get_or_create) before the
\* association is built, which fails; setting an existing association to
\* Removed fails as well. Both failures are caught and printed.
sync_one_from_external(diff, username_specified, uperm, acc) ==
    LET adds == Filtered(diff.missing_from_coldfront, username_specified, uperm)
        removes == Filtered({u \in diff.missing_from_external :
                                acc.userStatus[diff.id][u] # "None"},
                            username_specified, uperm)
        created == [i \in 1..Len(adds) |->
                      Outcome(adds[i], diff.group,
                              IF assign_status("Active") = "ValueError"
                              THEN "add_failed" ELSE "added")]
        removed == [i \in 1..Len(removes) |->
                      Outcome(removes[i], diff.group,
                              IF assign_status("Removed") = "ValueError"
                              THEN "remove_failed" ELSE "removed")]
        assigned(u) ==
            IF u \in {adds[i] : i \in 1..Len(adds)} /\ assign_status("Active") # "ValueError"
            THEN assign_status("Active")
            ELSE IF u \in {removes[i] : i \in 1..Len(removes)}
                    /\ assign_status("Removed") # "ValueError"
            THEN assign_status("Removed")
            ELSE acc.userStatus[diff.id][u]
    IN  [accounts |-> acc.accounts \cup {adds[i] : i \in 1..Len(adds)},
         userStatus |-> [acc.userStatus EXCEPT ![diff.id] = [u \in Users |-> assigned(u)]],
         log |-> acc.log \o created \o removed]

RECURSIVE sync_from_external(_, _, _, _, _)
sync_from_external(differences, i, username_specified, uperm, acc) ==
    IF i > Len(differences) THEN acc
    ELSE sync_from_external(differences, i + 1, username_specified, uperm,
                            sync_one_from_external(differences[i], username_specified, uperm, acc))

\* The dry_run option as handle reads it. A variant never sees it set.
dry_run_ignored(dry_run) == FALSE

dry_run_option(dry_run) == dry_run

\* Command.handle: one pass of sync_users, the directory calls on group g
\* failing as faults[g] says.
handle_under(faults, dry_run, sync_to, username_specified, group_specified) ==
    \E order \in Orders(entities_with_groups), perm \in Orders(GroupNames) :
      LET options == Options(dry_run, sync_to, username_specified, group_specified)
          coldfront_users_and_groups ==
              IF kind = "project"
              THEN collate_project_user_data(order, 1, group_specified)
              ELSE collate_allocation_user_data(order, 1, group_specified)
          records == coldfront_users_and_groups.records
          group_set == UNION {records[i].groups : i \in 1..Len(records)}
          external_users_and_groups == collate_external_user_data(group_set, groups, faults)
          reads == [i \in 1..Len(OrderOf(group_set, perm)) |->
                      Call("get_group_members", NoFilter, OrderOf(group_set, perm)[i])]
          differences == compare_coldfront_to_external(records, 1, external_users_and_groups, perm)
          done(calls, raised) ==
              [Done("sync_users", 0, 0, differences, "none", calls, <<>>, raised)
                  EXCEPT !.options = options, !.collated = records]
      IN  IF coldfront_users_and_groups.none
          THEN \* for sub in None: TypeError
               /\ last' = [Done("sync_users", 0, 0, <<>>, "none", <<>>, <<>>, "TypeError")
                              EXCEPT !.options = options]
               /\ UNCHANGED <<registry, groups, flaky, workers, settings, receivers>>
          ELSE IF dry_run_option(dry_run)
          THEN /\ last' = done(reads, "none")
               /\ UNCHANGED <<registry, groups, flaky, workers, settings, receivers>>
          ELSE IF sync_to
          THEN \E uperm \in Orders(Users) :
               LET r == sync_to_external(differences, 1, username_specified, uperm, faults,
                                         [dir |-> groups, calls |-> reads, raised |-> "none"])
               IN  /\ groups' = r.dir
                   /\ last' = done(r.calls, r.raised)
                   /\ UNCHANGED <<registry, flaky, workers, settings, receivers>>
          ELSE \E uperm \in Orders(Users) :
               LET r == sync_from_external(differences, 1, username_specified, uperm,
                                           [accounts |-> accounts, userStatus |-> userStatus,
                                            log |-> <<>>])
               IN  /\ accounts' = r.accounts
                   /\ userStatus' = r.userStatus
                   /\ last' = [done(reads, "none") EXCEPT !.log = r.log]
                   /\ UNCHANGED <<kind, status, attrs, pi, groups, flaky, workers, settings, receivers>>

handle(dry_run, sync_to, username_specified, group_specified) ==
    \E faults \in FaultChoices :
        handle_under(faults, dry_run, sync_to, username_specified, group_specified)

\* A sync pass starts from a registry whose entities are Active or New (an
\* entity after the first is New only if the first is), the first entity
\* declaring the first group or all groups and the others all groups;
\* every user is Active on an entity or holds no association on it (the
\* last user may be Removed on the first entity), the PI being Active on
\* the entities after the first; the users with an association and the PI
\* have a User record. Every group exists in the directory, with any
\* members.
InitSync ==
    /\ kind \in {"project", "allocation"}
    /\ status \in {s \in [Entities -> {"Active", "New"}] :
                      \A e \in Entities \ {1} : s[e] = "New" => s[1] = "New"}
    /\ attrs \in {a \in [Entities -> {{1}, GroupNames}] :
                     \A e \in Entities \ {1} : a[e] = GroupNames}
    /\ pi = [e \in Entities |-> 1]
    /\ userStatus \in {s \in [Entities -> [Users -> {"None", "Active", "Removed"}]] :
                          /\ \A e \in Entities \ {1} : s[e][1] = "Active"
                          /\ \A e \in Entities, u \in Users :
                                s[e][u] = "Removed" => (e = 1 /\ u = NumUsers)}
    /\ accounts = {u \in Users : u = 1 \/ \E e \in Entities : userStatus[e][u] # "None"}
    /\ groups \in [GroupNames -> SUBSET Users]
    /\ flaky = FALSE
    /\ settings = NoSettings
    /\ receivers = NoReceivers
    /\ workers = NoWorkers
    /\ last = Idle

\* The command is run once on each starting state.
NextSync ==
    /\ last = Idle
    /\ \E dry_run, sync_to \in BOOLEAN, username_specified \in {NoFilter, NumUsers},
          group_specified \in {NoFilter, NumGroups} :
           handle(dry_run, sync_to, username_specified, group_specified)

SpecSync == InitSync /\ [][NextSync]_vars

\* A pass in the direction of the registry against a directory whose member
\* queries may fail: the query of a group raises, or the client answers an
\* empty member list on a transport error.
SyncReadFaults == {NoFault, {"raise"}, {"get_group_members"}}

InitSyncReads ==
    /\ kind \in {"project", "allocation"}
    /\ status \in {s \in [Entities -> {"Active", "New"}] :
                      \A e \in Entities \ {1} : s[e] = "New" => s[1] = "New"}
    /\ attrs \in {a \in [Entities -> {{1}, GroupNames}] :
                     \A e \in Entities \ {1} : a[e] = GroupNames}
    /\ pi = [e \in Entities |-> 1]
    /\ userStatus \in {s \in [Entities -> [Users -> {"None", "Active", "Removed"}]] :
                          /\ \A e \in Entities \ {1} : s[e][1] = "Active"
                          /\ \A e \in Entities, u \in Users :
                                s[e][u] = "Removed" => (e = 1 /\ u = NumUsers)}
    /\ accounts = {u \in Users : u = 1 \/ \E e \in Entities : userStatus[e][u] # "None"}
    /\ groups \in [GroupNames -> SUBSET Users]
    /\ flaky = TRUE
    /\ settings = NoSettings
    /\ receivers = NoReceivers
    /\ workers = NoWorkers
    /\ last = Idle

NextSyncReads ==
    /\ last = Idle
    /\ \E faults \in [GroupNames -> SyncReadFaults],
          username_specified \in {NoFilter, NumUsers},
          group_specified \in {NoFilter, NumGroups} :
           handle_under(faults, FALSE, FALSE, username_specified, group_specified)

SpecSyncReads == InitSyncReads /\ [][NextSyncReads]_vars

\* --------------------------------------------- tasks run by django-q workers
\* signals.py hands every task to async_task; the workers of the cluster run
\* the tasks side by side, each one a sequence of registry reads and
\* directory calls that the calls of the other tasks may come between.
NoFaults == [g \in GroupNames |-> NoFault]

\* A task a worker holds: the task function, the association it was
\* dispatched for, its position, the groups still to process, the members
\* it last read, and the directory as it was when the task was dispatched.
Task(fn, e, u, pc, todo, members, dir0) ==
    [fn |-> fn, entity |-> e, user |-> u, pc |-> pc, todo |-> todo,
     members |-> members, dir0 |-> dir0]

NoTask == Task("none", 0, 0, "idle", <<>>, {}, <<>>)
Dispatched(fn, e, u, dir0) == Task(fn, e, u, "dispatched", <<>>, {}, dir0)

\* The message of the first failing check of the task fn, "ok" if none.
task_checks(fn, e, u) ==
    IF fn = "add_allocation_user_to_group" THEN add_allocation_user_checks(e, u)
    ELSE IF fn = "add_project_user_to_group" THEN add_project_user_checks(e, u)
    ELSE IF fn = "remove_allocation_user_from_group" THEN remove_allocation_user_checks(e, u)
    ELSE remove_project_user_checks(e, u)

\* The group set the task fn hands to the synchronizer, as it reads it from
\* the registry; empty when a check refuses or nothing is left to remove.
task_groups(fn, e, u) ==
    IF task_checks(fn, e, u) # "ok" THEN {}
    ELSE IF fn \in {"add_allocation_user_to_group", "add_project_user_to_group"}
    THEN get_attribute_list(e)
    ELSE IF fn = "remove_allocation_user_from_group"
    THEN get_attribute_list(e) \ collect_other_allocation_user_groups(u, e)
    ELSE get_attribute_list(e) \ collect_other_project_user_groups(u, e)

Adds(t) == t.fn \in {"add_allocation_user_to_group", "add_project_user_to_group"}

\* The task after the group at the head of its list is finished.
next_group(t) ==
    [t EXCEPT !.todo = Tail(t.todo),
              !.members = {},
              !.pc = IF Len(t.todo) > 1 THEN "group_exists" ELSE "done"]

\* The record of one step of a worker: the client call it made, if any.
Step(t, calls, raised) ==
    Done("step", t.entity, t.user, "None", "none", calls, <<>>, raised)

\* A worker picks the task up: the checks and the group set are read from
\* the registry as it is now.
run_task(w) ==
    /\ workers[w].pc = "dispatched"
    /\ LET t == workers[w]
           gs == task_groups(t.fn, t.entity, t.user)
       IN  \E order \in Orders(gs) :
             /\ workers' = [workers EXCEPT ![w] =
                              [t EXCEPT !.todo = order,
                                        !.pc = IF gs = {} THEN "done" ELSE "group_exists"]]
             /\ last' = [Step(t, <<>>, "none") EXCEPT !.op = "run_task"]
    /\ UNCHANGED <<registry, groups, flaky, settings, receivers>>

\* client.group_exists(group): utils.py:47 and utils.py:58.
step_group_exists(w) ==
    /\ workers[w].pc = "group_exists"
    /\ LET t == workers[w]
           group == Head(t.todo)
           exists == group_exists(groups, group, NoFault)
       IN  /\ workers' = [workers EXCEPT ![w] =
                            IF exists THEN [t EXCEPT !.pc = "get_group_members"]
                            ELSE IF Adds(t) THEN [t EXCEPT !.pc = "create_group"]
                            ELSE next_group(t)]
           /\ last' = Step(t, <<Call("group_exists", t.user, group)>>,
                           IF ~exists /\ ~Adds(t) THEN "GroupDoesNotExistError" ELSE "none")
    /\ UNCHANGED <<registry, groups, flaky, settings, receivers>>

\* client.create_group(group): utils.py:50.
step_create_group(w) ==
    /\ workers[w].pc = "create_group"
    /\ LET t == workers[w]
           group == Head(t.todo)
       IN  /\ groups' = create_group(groups, group, NoFault)
           /\ workers' = [workers EXCEPT ![w] = [t EXCEPT !.pc = "get_group_members"]]
           /\ last' = Step(t, <<Call("create_group", t.user, group)>>, "none")
    /\ UNCHANGED <<registry, flaky, settings, receivers>>

\* client.get_group_members(group) and the membership test that follows:
\* utils.py:51-53 and utils.py:61-63.
step_get_group_members(w) ==
    /\ workers[w].pc = "get_group_members"
    /\ LET t == workers[w]
           group == Head(t.todo)
           members == get_group_members(groups, group, NoFault)
       IN  /\ workers' = [workers EXCEPT ![w] =
                            IF Adds(t)
                            THEN IF t.user \in members THEN next_group(t)
                                 ELSE [t EXCEPT !.members = members, !.pc = "add_user_to_group"]
                            ELSE IF t.user \notin members THEN next_group(t)
                                 ELSE [t EXCEPT !.members = members, !.pc = "remove_user_from_group"]]
           /\ last' = Step(t, <<Call("get_group_members", t.user, group)>>,
                           IF Adds(t) /\ t.user \in members THEN "AlreadyMemberError"
                           ELSE IF ~Adds(t) /\ t.user \notin members THEN "NotMemberError"
                           ELSE "none")
    /\ UNCHANGED <<registry, flaky, settings, receivers>>
    /\ UNCHANGED groups

\* What the directory holds after the add call of task t. A variant writes
\* back the member list the task read, with the user added.
directory_after_add_from_read(dir, t) ==
    [g \in DOMAIN dir \cup {Head(t.todo)} |->
        IF g = Head(t.todo) THEN t.members \cup {t.user} ELSE dir[g]]

directory_after_add(dir, t) ==
    add_user_to_group(dir, t.user, Head(t.todo), NoFault)

\* client.add_user_to_group(user, group): utils.py:55.
step_add_user_to_group(w) ==
    /\ workers[w].pc = "add_user_to_group"
    /\ LET t == workers[w]
       IN  /\ groups' = directory_after_add(groups, t)
           /\ workers' = [workers EXCEPT ![w] = next_group(t)]
           /\ last' = Step(t, <<Call("add_user_to_group", t.user, Head(t.todo))>>, "none")
    /\ UNCHANGED <<registry, flaky, settings, receivers>>

\* client.remove_user_from_group(user, group): utils.py:64.
step_remove_user_from_group(w) ==
    /\ workers[w].pc = "remove_user_from_group"
    /\ LET t == workers[w]
       IN  /\ groups' = remove_user_from_group(groups, t.user, Head(t.todo), NoFault)
           /\ workers' = [workers EXCEPT ![w] = next_group(t)]
           /\ last' = Step(t, <<Call("remove_user_from_group", t.user, Head(t.todo))>>, "none")
    /\ UNCHANGED <<registry, flaky, settings, receivers>>

WorkerStep(w) ==
    \/ run_task(w)
    \/ step_group_exists(w)
    \/ step_create_group(w)
    \/ step_get_group_members(w)
    \/ step_add_user_to_group(w)
    \/ step_remove_user_from_group(w)

\* Two tasks of the same kind, dispatched for two different associations on
\* a registry that does not change while they run. Every entity is Active;
\* entity 1 declares every group and the others the first group or all; an
\* association with a task is Active (add) or Removed (remove), any other
\* is Active or absent.
Associations == Entities \X Users

TaskPairs ==
    {p \in Associations \X Associations :
        \/ p[1][1] < p[2][1]
        \/ p[1][1] = p[2][1] /\ p[1][2] < p[2][2]}

InitRace ==
    /\ kind \in {"project", "allocation"}
    /\ status = [e \in Entities |-> "Active"]
    /\ attrs \in {a \in [Entities -> {{1}, GroupNames}] : a[1] = GroupNames}
    /\ pi = [e \in Entities |-> 1]
    /\ accounts = Users
    /\ groups \in InitialDirectories
    /\ flaky = FALSE
    /\ settings = NoSettings
    /\ receivers = NoReceivers
    /\ last = Idle
    /\ \E p \in TaskPairs, adds \in BOOLEAN :
         LET fn == IF adds
                   THEN IF kind = "project" THEN "add_project_user_to_group"
                        ELSE "add_allocation_user_to_group"
                   ELSE IF kind = "project" THEN "remove_project_user_from_group"
                        ELSE "remove_allocation_user_from_group"
         IN  /\ userStatus \in {s \in [Entities -> [Users -> {"None", "Active", "Removed"}]] :
                     \A e \in Entities, u \in Users :
                         IF <<e, u>> \in {p[1], p[2]}
                         THEN s[e][u] = IF adds THEN "Active" ELSE "Removed"
                         ELSE s[e][u] \in {"None", "Active"}}
             /\ workers = [w \in Workers |->
                             IF w <= 2 THEN Dispatched(fn, p[w][1], p[w][2], groups) ELSE NoTask]

NextRace == \E w \in Workers : WorkerStep(w)

SpecRace == InitRace /\ [][NextRace]_vars

\* The signals of signals.py as the views send them: the association's
\* status is set, then the receiver dispatches the task to a free worker.
activate_user(e, u, w) ==
    /\ workers[w].pc = "idle"
    /\ userStatus[e][u] # "Active"
    /\ userStatus' = [userStatus EXCEPT ![e][u] = "Active"]
    /\ workers' = [workers EXCEPT ![w] =
                     Dispatched(IF kind = "project" THEN "add_project_user_to_group"
                                ELSE "add_allocation_user_to_group", e, u, groups)]
    /\ last' = [Step(workers'[w], <<>>, "none") EXCEPT !.op = "activate_user"]
    /\ UNCHANGED <<kind, status, attrs, pi, accounts, groups, flaky, settings, receivers>>

remove_user(e, u, w) ==
    /\ workers[w].pc = "idle"
    /\ userStatus[e][u] = "Active"
    /\ userStatus' = [userStatus EXCEPT ![e][u] = "Removed"]
    /\ workers' = [workers EXCEPT ![w] =
                     Dispatched(IF kind = "project" THEN "remove_project_user_from_group"
                                ELSE "remove_allocation_user_from_group", e, u, groups)]
    /\ last' = [Step(workers'[w], <<>>, "none") EXCEPT !.op = "remove_user"]
    /\ UNCHANGED <<kind, status, attrs, pi, accounts, groups, flaky, settings, receivers>>

\* The registry and the directory agree when the signals start to arrive:
\* entities are Active, and each group that exists holds exactly the users
\* with an Active association on an entity that declares it; a group that
\* nobody holds may not exist yet.
InitEvents ==
    /\ kind \in {"project", "allocation"}
    /\ status = [e \in Entities |-> "Active"]
    /\ attrs \in {a \in [Entities -> {{1}, GroupNames}] : a[1] = GroupNames}
    /\ pi = [e \in Entities |-> 1]
    /\ accounts = Users
    /\ userStatus \in [Entities -> [Users -> {"None", "Active"}]]
    /\ groups \in {d \in Directories :
                      \A g \in GroupNames :
                          LET holders == {u \in Users : \E e \in Entities :
                                              userStatus[e][u] = "Active" /\ g \in attrs[e]}
                          IN  /\ g \in DOMAIN d => d[g] = holders
                              /\ holders # {} => g \in DOMAIN d}
    /\ flaky = FALSE
    /\ settings = NoSettings
    /\ receivers = NoReceivers
    /\ workers = [w \in Workers |-> NoTask]
    /\ last = Idle

\* A worker takes one task; the lowest free worker takes the next signal.
NextEvents ==
    \/ \E e \in Entities, u \in Users, w \in Workers :
          /\ \A v \in Workers : v < w => workers[v].pc # "idle"
          /\ activate_user(e, u, w)
    \/ \E e \in Entities, u \in Users, w \in Workers :
          /\ \A v \in Workers : v < w => workers[v].pc # "idle"
          /\ remove_user(e, u, w)
    \/ \E w \in Workers : WorkerStep(w)

SpecEvents == InitEvents /\ [][NextEvents]_vars

\* ------------------------------------------------------ signals.py, apps.py
\* The signals of the registry the plugin listens to, and the views that
\* send them; "other" is any sender the plugin names nowhere.
ProjectUserSignals == {"project_activate_user", "project_remove_user"}
AllocationUserSignals == {"allocation_activate_user", "allocation_remove_user"}
Signals == ProjectUserSignals \cup AllocationUserSignals \cup {"project_archive"}
AnySender == "None"
Senders == {"ProjectAddUsersView", "ProjectRemoveUsersView", "AllocationAddUsersView",
            "AllocationRemoveUsersView", "AllocationRenewView", "other"}

\* The three settings UserManagementConfig.ready reads.
Settings(enable_signals, project_level, remove_on_archive) ==
    [USER_MANAGEMENT_ENABLE_SIGNALS |-> enable_signals,
     MANAGE_GROUPS_AT_PROJECT_LEVEL |-> project_level,
     USER_MANAGEMENT_REMOVE_USERS_ON_PROJECT_ARCHIVE |-> remove_on_archive]

\* One connection of a receiver function to a signal.
Connection(signal, receiver, sender, dispatch_uid) ==
    [signal |-> signal, receiver |-> receiver, sender |-> sender,
     dispatch_uid |-> dispatch_uid]

\* Signal.connect: the connection is appended unless the signal already
\* holds one with the same dispatch_uid and sender.
connect(rs, c) ==
    IF \E i \in 1..Len(rs) :
          /\ rs[i].signal = c.signal
          /\ rs[i].dispatch_uid = c.dispatch_uid
          /\ rs[i].sender = c.sender
    THEN rs ELSE Append(rs, c)

RECURSIVE connect_all(_, _, _)
connect_all(rs, cs, i) ==
    IF i > Len(cs) THEN rs ELSE connect_all(connect(rs, cs[i]), cs, i + 1)

\* init_signal_receivers: the connect calls it makes, in order.
init_signal_receivers(project_level, remove_on_archive) ==
    IF project_level
    THEN <<Connection("project_activate_user", "activate_project_user",
                      "ProjectAddUsersView", "ump_activate_project_user_1"),
           Connection("project_remove_user", "remove_project_user",
                      "ProjectRemoveUsersView", "ump_remove_project_user_1")>>
         \o (IF remove_on_archive
             THEN <<Connection("project_archive", "remove_all_project_users",
                               AnySender, "ump_archive_project_1")>>
             ELSE <<>>)
    ELSE <<Connection("allocation_activate_user", "activate_allocation_user",
                      "ProjectAddUsersView", "ump_activate_allocation_user_1"),
           Connection("allocation_activate_user", "activate_allocation_user",
                      "AllocationAddUsersView", "ump_activate_allocation_user_2"),
           Connection("allocation_remove_user", "remove_allocation_user",
                      "ProjectRemoveUsersView", "ump_remove_allocation_user_1"),
           Connection("allocation_remove_user", "remove_allocation_user",
                      "AllocationRemoveUsersView", "ump_remove_allocation_user_2"),
           Connection("allocation_remove_user", "remove_allocation_user",
                      "AllocationRenewView", "ump_remove_allocation_user_3")>>
         \o (IF remove_on_archive
             THEN <<Connection("project_archive", "remove_all_project_users",
                               AnySender, "ump_archive_project")>>
             ELSE <<>>)

\* The task each receiver function hands to async_task.
task_of(receiver) ==
    IF receiver = "activate_allocation_user" THEN "add_allocation_user_to_group"
    ELSE IF receiver = "remove_allocation_user" THEN "remove_allocation_user_from_group"
    ELSE IF receiver = "activate_project_user" THEN "add_project_user_to_group"
    ELSE IF receiver = "remove_project_user" THEN "remove_project_user_from_group"
    ELSE "remove_all_project_users_from_groups"

\* Whether a connection receives what sender sends. A variant lets every
\* connection receive from every sender.
receives_from_any(c, signal, sender) == c.signal = signal

receives(c, signal, sender) ==
    c.signal = signal /\ (c.sender = AnySender \/ c.sender = sender)

\* Signal.send: the tasks dispatched by the receivers called, in order.
dispatched_by(rs, signal, sender, e, u) ==
    LET called == SelectSeq(rs, LAMBDA c : receives(c, signal, sender))
    IN  [i \in 1..Len(called) |->
            [fn |-> task_of(called[i].receiver), entity |-> e, user |-> u]]

\* UserManagementConfig.ready, from the settings test on.
ready ==
    /\ receivers' = IF settings.USER_MANAGEMENT_ENABLE_SIGNALS
                    THEN connect_all(receivers,
                             init_signal_receivers(settings.MANAGE_GROUPS_AT_PROJECT_LEVEL,
                                 settings.USER_MANAGEMENT_REMOVE_USERS_ON_PROJECT_ARCHIVE), 1)
                    ELSE receivers
    /\ last' = Done("ready", 0, 0, "None", "none", <<>>, <<>>, "none")
    /\ UNCHANGED <<registry, groups, flaky, workers, settings>>

\* A view of the registry sends a signal about an association (or, for
\* project_archive, about a project: the user is 0).
send(signal, sender, e, u) ==
    /\ last' = Done("send", e, u, dispatched_by(receivers, signal, sender, e, u), "none",
                    <<>>, <<[signal |-> signal, sender |-> sender]>>, "none")
    /\ UNCHANGED <<registry, groups, flaky, workers, settings, receivers>>

\* The application starts with any settings and no connection.
InitSignals ==
    /\ settings \in {Settings(a, b, c) : a, b, c \in BOOLEAN}
    /\ kind = IF settings.MANAGE_GROUPS_AT_PROJECT_LEVEL THEN "project" ELSE "allocation"
    /\ status = [e \in Entities |-> "Active"]
    /\ attrs = [e \in Entities |-> GroupNames]
    /\ pi = [e \in Entities |-> 1]
    /\ accounts = Users
    /\ userStatus = [e \in Entities |-> [u \in Users |-> "Active"]]
    /\ groups = [g \in GroupNames |-> Users]
    /\ flaky = FALSE
    /\ workers = NoWorkers
    /\ receivers = NoReceivers
    /\ last = Idle

NextSignals ==
    \/ ready
    \/ \E signal \in Signals, sender \in Senders, e \in Entities, u \in Users :
          send(signal, sender, e, IF signal = "project_archive" THEN 0 ELSE u)

SpecSignals == InitSignals /\ [][NextSignals]_vars

\* ------------------------------------------ management/commands/load_groups.py
\* A mapping key: lower("{title}_{pi username}") of a project of the
\* registry, the text of an allocation's primary key, or the text
\* lower("{project}_{pi_username}") of a row that names no project of the
\* registry with its PI ("none_none", "_", ...).
TitlePiKey(e) == <<"title_pi", e>>
PkKey(e) == <<"pk", e>>
TextKey(project, pi_username) == <<"text", (project + 1) * (NumUsers + 2) + pi_username + 1>>

\* A field of an input row: absent (None), blank, or a value: the title of
\* project e, the username of user u, the primary key e, the group g.
Null == -1
Blank == 0
Row(project, pi_username, allocation_id, group) ==
    [project |-> project, pi_username |-> pi_username,
     allocation_id |-> allocation_id, group |-> group]

\* field is None or field.strip() == "".
is_empty(field) == field \in {Null, Blank}

\* f"{project}_{pi_username}".lower().strip()
format_key(project, pi_username) ==
    IF project \in Entities /\ pi_username = pi[project]
    THEN TitlePiKey(project) ELSE TextKey(project, pi_username)

\* group_mappings[key] = group
mapping_set(group_mappings, key, group) ==
    [k \in DOMAIN group_mappings \cup {key} |-> IF k = key THEN group ELSE group_mappings[k]]

\* The loop of __parse_input_data from the i-th row on.
RECURSIVE __parse_input_data(_, _, _)
__parse_input_data(rows, i, group_mappings) ==
    IF i > Len(rows) THEN group_mappings
    ELSE LET row == rows[i]
             next(m) == __parse_input_data(rows, i + 1, m)
         IN  IF is_empty(row.group) THEN next(group_mappings)
             ELSE IF ~is_empty(row.allocation_id)
             THEN next(mapping_set(group_mappings, PkKey(row.allocation_id), row.group))
             ELSE IF is_empty(row.project) /\ is_empty(row.pi_username)
             THEN next(mapping_set(group_mappings,
                                   format_key(row.project, row.pi_username), row.group))
             ELSE next(group_mappings)

\* dict.get(key) on the group mappings; NoGroup stands for None.
NoGroup == 0
mapping_get(group_mappings, key) ==
    IF key \in DOMAIN group_mappings THEN group_mappings[key] ELSE NoGroup

\* One entry of self.differences[action].
Change(action, mapping_key, e, group, new_group) ==
    [action |-> action, mapping_key |-> mapping_key, entity |-> e,
     group |-> group, new_group |-> new_group]

\* attributes.first().value for an entity that has the group attribute.
first_value(values) == CHOOSE v \in values : TRUE

\* project_attributes.first().update(value=...): first() returns a model
\* instance, and a model instance has no update method.
update_first(values, value) == "AttributeError"

\* Progress of the loop over the entities: the attribute values, the
\* changes recorded so far, the exception that ended it.
Loaded(values, changes, raised) == [attrs |-> values, changes |-> changes, raised |-> raised]

\* The loop of set_group_attribute_for_projects from the i-th project on.
RECURSIVE set_group_attribute_for_projects(_, _, _, _, _)
set_group_attribute_for_projects(projects, i, group_mappings, dry_run, acc) ==
    IF i > Len(projects) \/ acc.raised # "none" THEN acc
    ELSE LET project == projects[i]
             key == TitlePiKey(project)
             group_for_project == mapping_get(group_mappings, key)
             project_attributes == acc.attrs[project]
             next(a) == set_group_attribute_for_projects(projects, i + 1, group_mappings, dry_run, a)
         IN  IF group_for_project = NoGroup THEN next(acc)
             ELSE IF project_attributes # {}
             THEN IF first_value(project_attributes) = group_for_project
                  THEN next([acc EXCEPT !.changes = Append(@,
                          Change("skipped", key, project, group_for_project, group_for_project))])
                  ELSE IF ~dry_run
                  THEN next([acc EXCEPT !.raised = update_first(project_attributes, group_for_project)])
                  ELSE next([acc EXCEPT !.changes = Append(@,
                          Change("updated", key, project, first_value(project_attributes),
                                 group_for_project))])
             ELSE IF ~dry_run
                  THEN next([acc EXCEPT !.attrs[project] = {group_for_project},
                                        !.changes = Append(@,
                          Change("added", key, project, NoGroup, group_for_project))])
                  ELSE next(acc)

\* The loop of set_group_attribute_for_allocations from the i-th allocation
\* on. An allocation without a mapping is processed with the group None;
\* null_saved: whether the registry accepts an attribute whose value is None
\* (the plugin's source does not decide it).
RECURSIVE set_group_attribute_for_allocations(_, _, _, _, _, _)
set_group_attribute_for_allocations(allocations, i, group_mappings, dry_run, null_saved, acc) ==
    IF i > Len(allocations) \/ acc.raised # "none" THEN acc
    ELSE LET allocation == allocations[i]
             key == TitlePiKey(allocation)
             group_for_allocation == mapping_get(group_mappings, PkKey(allocation))
             allocation_attributes == acc.attrs[allocation]
             next(a) == set_group_attribute_for_allocations(allocations, i + 1, group_mappings,
                                                            dry_run, null_saved, a)
         IN  IF allocation_attributes # {}
             THEN IF first_value(allocation_attributes) = group_for_allocation
                  THEN next([acc EXCEPT !.changes = Append(@,
                          Change("skipped", key, allocation, group_for_allocation,
                                 group_for_allocation))])
                  ELSE IF ~dry_run
                  THEN next([acc EXCEPT !.raised = update_first(allocation_attributes,
                                                                group_for_allocation)])
                  ELSE next(acc)
             ELSE IF ~dry_run
                  THEN IF group_for_allocation = NoGroup /\ ~null_saved
                       THEN next([acc EXCEPT !.raised = "IntegrityError"])
                       ELSE next([acc EXCEPT !.attrs[allocation] = {group_for_allocation},
                                             !.changes = Append(@,
                               Change("added", key, allocation, NoGroup, group_for_allocation))])
                  ELSE next(acc)

\* handle_differences: the input keys that no change carries are added as
\* skipped, and the changes are written action by action. keys: the missing
\* keys in the order they are appended.
handle_differences(group_mappings, changes, keys) ==
    LET processed_keys == {changes[i].mapping_key : i \in 1..Len(changes)}
        missing == SelectSeq(keys, LAMBDA k : k \in DOMAIN group_mappings /\ k \notin processed_keys)
        all == changes \o [i \in 1..Len(missing) |->
                             Change("skipped", missing[i], 0, group_mappings[missing[i]], NoGroup)]
        is(action) == SelectSeq(all, LAMBDA c : c.action = action)
    IN  is("added") \o is("updated") \o is("skipped")

\* The entities the command visits: Active ones, and New ones on request.
load_selection(include_new) ==
    {e \in Entities : status[e] \in (IF include_new THEN {"Active", "New"} ELSE {"Active"})}

\* Command.handle from the parsed mappings on: what the run leaves in the
\* registry, the report it writes (none when an exception ends it).
load_groups_run(include_new, dry_run, group_mappings, order, keys, null_saved) ==
    LET start == Loaded(attrs, <<>>, "none")
        r == IF kind = "project"
             THEN set_group_attribute_for_projects(order, 1, group_mappings, dry_run, start)
             ELSE set_group_attribute_for_allocations(order, 1, group_mappings, dry_run,
                                                      null_saved, start)
    IN  [attrs |-> r.attrs, raised |-> r.raised,
         report |-> IF r.raised = "none"
                    THEN handle_differences(group_mappings, r.changes, keys) ELSE <<>>]

\* Command.handle on an input file with the given rows; handle_input_file
\* raises ValueError when the rows yield no mapping. The inputs of the run
\* are kept with its record.
load_groups(include_new, dry_run, rows) ==
    LET group_mappings == __parse_input_data(rows, 1, <<>>)
        input == [fn |-> "load_groups", include_new |-> include_new, dry_run |-> dry_run,
                  rows |-> rows, group_mappings |-> group_mappings]
    IN  IF DOMAIN group_mappings = {}
        THEN /\ last' = Done("load_groups", 0, 0, <<>>, "none", <<>>, <<input>>, "ValueError")
             /\ UNCHANGED <<registry, groups, flaky, workers, settings, receivers>>
        ELSE \E order \in Orders(load_selection(include_new)),
                keys \in Orders(DOMAIN group_mappings), null_saved \in BOOLEAN :
               LET r == load_groups_run(include_new, dry_run, group_mappings, order, keys,
                                        null_saved)
               IN  /\ attrs' = r.attrs
                   /\ last' = Done("load_groups", 0, 0, r.report, "none", <<>>, <<input>>,
                                   r.raised)
                   /\ UNCHANGED <<kind, status, pi, userStatus, accounts, groups, flaky, workers, settings, receivers>>

\* The rows of the input files: a row for an allocation (one of the
\* registry, or a primary key the registry does not hold), a row for a
\* project and its PI, a row with neither, a row without a group.
InputRows ==
    {Row(Null, Null, a, g) : a \in Entities \cup {NumEntities + 1}, g \in GroupNames}
    \cup {Row(e, pi[e], Blank, g) : e \in Entities, g \in GroupNames}
    \cup {Row(Null, Null, Null, g) : g \in GroupNames}
    \cup {Row(Blank, Blank, Blank, g) : g \in GroupNames}
    \cup {Row(1, pi[1], Blank, Blank)}

\* The command runs on a registry of Active and New entities, each with no
\* group attribute or one value.
InitLoad ==
    /\ kind \in {"project", "allocation"}
    /\ status \in [Entities -> {"Active", "New"}]
    /\ attrs \in [Entities -> {{}} \cup {{g} : g \in GroupNames}]
    /\ pi = [e \in Entities |-> 1]
    /\ accounts = Users
    /\ userStatus = [e \in Entities |-> [u \in Users |-> "None"]]
    /\ groups = <<>>
    /\ flaky = FALSE
    /\ settings = NoSettings
    /\ receivers = NoReceivers
    /\ workers = NoWorkers
    /\ last = Idle

\* The command is run once on each starting state, on an input file of one
\* row or two.
NextLoad ==
    /\ last = Idle
    /\ \E include_new, dry_run \in BOOLEAN,
          rows \in {<<r>> : r \in InputRows} \cup {<<r, q>> : r, q \in InputRows} :
           load_groups(include_new, dry_run, rows)

SpecLoad == InitLoad /\ [][NextLoad]_vars

\* __parse_input_data called on its own, on any file of up to two rows whose
\* fields are absent, blank or hold a value.
AllRows ==
    {Row(project, pi_username, allocation_id, group) :
        project \in {Null, Blank} \cup Entities, pi_username \in {Null, Blank} \cup Users,
        allocation_id \in {Null, Blank} \cup Entities,
        group \in {Null, Blank} \cup GroupNames}

Invoke_parse_input_data(rows) ==
    /\ last' = Done("__parse_input_data", 0, 0, __parse_input_data(rows, 1, <<>>), "none",
                    <<>>, <<[fn |-> "__parse_input_data", rows |-> rows]>>, "none")
    /\ UNCHANGED <<registry, groups, flaky, workers, settings, receivers>>

InitParse ==
    /\ kind \in {"project", "allocation"}
    /\ status = [e \in Entities |-> "Active"]
    /\ attrs = [e \in Entities |-> {}]
    /\ pi = [e \in Entities |-> 1]
    /\ accounts = Users
    /\ userStatus = [e \in Entities |-> [u \in Users |-> "None"]]
    /\ groups = <<>>
    /\ flaky = FALSE
    /\ settings = NoSettings
    /\ receivers = NoReceivers
    /\ workers = NoWorkers
    /\ last = Idle

NextParse ==
    /\ last = Idle
    /\ \E rows \in {<<r>> : r \in AllRows} \cup {<<r, q>> : r \in AllRows, q \in InputRows} :
           Invoke_parse_input_data(rows)

SpecParse == InitParse /\ [][NextParse]_vars

\* ================================================================ claims
\* The members the directory holds for a group (nobody when it does not exist).
Members(dir, group) == IF group \in DOMAIN dir THEN dir[group] ELSE {}

\* The positions of the calls of one client operation in a call log.
CallsOf(calls, op) == {i \in 1..Len(calls) : calls[i].op = op}

\* The last operation was fn(user, {group}) / fn(user, gs) called directly.
Invoked(l, fn, user, gs) ==
    /\ l.op = fn
    /\ l.user = user
    /\ l.trace[1].groups = gs

\* C2: whenever _add_user_to_group(u, g) is called while u is a member of g,
\* it raises AlreadyMemberError, makes no add call and leaves the directory
\* as it was (u still a member of g).
C2_AddAlreadyMember ==
    (\A u \in Users, g \in GroupNames :
         (Invoked(last, "_add_user_to_group", u, {g}) /\ u \in Members(last.before, g))
         => /\ last.raised = "AlreadyMemberError"
            /\ CallsOf(last.calls, "add_user_to_group") = {}
            /\ CallsOf(last.calls, "create_group") = {}
            /\ groups = last.before
            /\ u \in Members(groups, g))

C2_Witness ==
    \E u \in Users, g \in GroupNames :
        /\ Invoked(last, "_add_user_to_group", u, {g})
        /\ last.raised = "AlreadyMemberError"
        /\ u \in Members(groups, g)

\* C3: whenever _remove_user_from_group(u, g) is called, it raises
\* GroupDoesNotExistError if g does not exist and NotMemberError if g exists
\* without u; in both cases it makes no remove call and the directory is unchanged.
C3_RemoveBenignErrors ==
    (\A u \in Users, g \in GroupNames :
         Invoked(last, "_remove_user_from_group", u, {g})
         => /\ g \notin DOMAIN last.before => last.raised = "GroupDoesNotExistError"
            /\ (g \in DOMAIN last.before /\ u \notin last.before[g]) => last.raised = "NotMemberError"
            /\ u \notin Members(last.before, g)
               => /\ CallsOf(last.calls, "remove_user_from_group") = {}
                  /\ groups = last.before)

C3_Witness ==
    \E u \in Users, g \in GroupNames :
        /\ Invoked(last, "_remove_user_from_group", u, {g})
        /\ last.raised = "GroupDoesNotExistError"
        /\ g \notin DOMAIN groups

\* C4: when _add_user_to_group(u, g) is called for a u that is not a member of
\* g and returns normally, g exists afterwards with u in it, and g was created
\* before the add call if it did not exist; when _remove_user_from_group(u, g)
\* is called for a member u of g and returns normally, g still exists and u is
\* no longer in it.
C4_AddAndRemoveTakeEffect ==
    (\A u \in Users, g \in GroupNames :
         /\ (/\ Invoked(last, "_add_user_to_group", u, {g})
             /\ u \notin Members(last.before, g)
             /\ last.raised = "none")
            => /\ g \in DOMAIN groups
               /\ u \in groups[g]
               /\ g \notin DOMAIN last.before
                  => \E i \in CallsOf(last.calls, "create_group") :
                       \A j \in CallsOf(last.calls, "add_user_to_group") : i < j
         /\ (/\ Invoked(last, "_remove_user_from_group", u, {g})
             /\ u \in Members(last.before, g)
             /\ last.raised = "none")
            => /\ g \in DOMAIN groups
               /\ u \notin groups[g])

C4_Witness ==
    \E u \in Users, g \in GroupNames :
        /\ Invoked(last, "_add_user_to_group", u, {g})
        /\ last.raised = "none"
        /\ CallsOf(last.calls, "create_group") # {}
        /\ u \in Members(groups, g)

\* C5: when add_user_to_group_set(u, G) is called right after a call of
\* add_user_to_group_set(u, G) that returned normally, the directory stays
\* as the first call left it, every group of G is recorded as AlreadyMember
\* and no create_group or add_user_to_group call is made.
C5_AddSetIdempotent ==
    [][\A u \in Users, gs \in SUBSET GroupNames :
         (/\ Invoked(last, "add_user_to_group_set", u, gs)
          /\ last.raised = "none"
          /\ Invoked(last', "add_user_to_group_set", u, gs))
         => /\ groups' = groups
            /\ Len(last'.ret) = Cardinality(gs)
            /\ \A i \in 1..Len(last'.ret) : last'.ret[i].what = "already_member"
            /\ CallsOf(last'.calls, "create_group") = {}
            /\ CallsOf(last'.calls, "add_user_to_group") = {}]_vars

C5_Witness ==
    \E u \in Users :
        /\ Invoked(last, "add_user_to_group_set", u, GroupNames)
        /\ \A i \in 1..Len(last.ret) : last.ret[i].what = "already_member"
        /\ Len(last.ret) = NumGroups

\* ------------------------------------------------------ the tasks' claims
AddTasks == {"add_allocation_user_to_group", "add_project_user_to_group"}
RemoveTasks == {"remove_allocation_user_from_group", "remove_project_user_from_group"}

\* The last operation was the task op run for the association of u on e.
Ran(l, ops, e, u) == l.op \in ops /\ l.entity = e /\ l.user = u

\* u holds an Active association on the Active entity e, which declares g.
Holds(u, e, g) == status[e] = "Active" /\ userStatus[e][u] = "Active" /\ g \in attrs[e]

\* The groups u still needs through a grant other than the one on e.
Protected(u, e) == {g \in GroupNames : \E b \in Entities \ {e} : Holds(u, b, g)}

\* C1: (a) when the removal task runs for u's Removed association on the
\* Active entity a, a group g of a that u also holds through an Active
\* association on another Active entity keeps u as a member; (b) after the
\* removal task has run for u's Removed association on the Active entity a,
\* u is in no group of a that u holds through no other grant, in particular
\* once u's associations on a and b are both Removed; (c) a removal task
\* never adds a member, so the other task leaves u out, in either order.
C1_SharedGroupProtection ==
    /\ (\A a \in Entities, u \in Users, g \in GroupNames :
            (/\ Ran(last, RemoveTasks, a, u)
             /\ status[a] = "Active" /\ userStatus[a][u] = "Removed"
             /\ g \in attrs[a] /\ g \in Protected(u, a)
             /\ u \in Members(last.before, g))
            => u \in Members(groups, g))
    /\ (\A a \in Entities, u \in Users, g \in GroupNames :
            (/\ Ran(last, RemoveTasks, a, u)
             /\ status[a] = "Active" /\ userStatus[a][u] = "Removed"
             /\ g \in attrs[a] /\ g \notin Protected(u, a))
            => u \notin Members(groups, g))
    /\ (last.op \in RemoveTasks
            => \A g \in GroupNames : Members(groups, g) \subseteq Members(last.before, g))

C1_Witness ==
    \E a, b \in Entities, u \in Users, g \in GroupNames :
        /\ a # b
        /\ Ran(last, RemoveTasks, a, u)
        /\ status[a] = "Active" /\ userStatus[a][u] = "Removed"
        /\ g \in attrs[a] /\ Holds(u, b, g)
        /\ last.trace[1].groups = attrs[b]
        /\ u \in Members(groups, g)

\* C6: an add task that runs while the entity is not Active or the
\* association is not Active logs a message, makes no call on utils or on the
\* directory, leaves the directory unchanged and raises nothing.
C6_AddPreconditions ==
    (\A e \in Entities, u \in Users :
         (/\ Ran(last, AddTasks, e, u)
          /\ ~(status[e] = "Active" /\ userStatus[e][u] = "Active"))
         => /\ last.calls = <<>>
            /\ last.trace = <<>>
            /\ last.logged # "none"
            /\ last.raised = "none"
            /\ groups = last.before)

C6_Witness ==
    \E e \in Entities, u \in Users :
        /\ Ran(last, {"add_project_user_to_group"}, e, u)
        /\ status[e] = "Active" /\ userStatus[e][u] = "Removed"
        /\ attrs[e] # {}
        /\ last.calls = <<>>

\* C7 as stated: a removal task of either kind makes no removal call on the
\* directory and changes nothing in it unless the entity is Active, Pending or Inactive (Renewed)
\* and the association is Removed.
C7_Original ==
    (\A e \in Entities, u \in Users :
         (/\ Ran(last, RemoveTasks, e, u)
          /\ ~(/\ status[e] \in {"Active", "Pending", "Inactive (Renewed)"}
               /\ userStatus[e][u] = "Removed"))
         => /\ CallsOf(last.calls, "remove_user_from_group") = {}
            /\ groups = last.before)

\* C7 as amended: the allocation removal task makes no removal call on
\* the directory and changes nothing in it unless
\* the allocation is Active, Pending or Inactive (Renewed), the project
\* removal task makes none unless the project is not Archived, and neither
\* makes any unless the association is Removed.
C7_RemovePreconditions ==
    (\A e \in Entities, u \in Users :
         /\ (/\ Ran(last, {"remove_allocation_user_from_group"}, e, u)
             /\ ~(/\ status[e] \in {"Active", "Pending", "Inactive (Renewed)"}
                  /\ userStatus[e][u] = "Removed"))
            => /\ CallsOf(last.calls, "remove_user_from_group") = {}
               /\ groups = last.before
         /\ (/\ Ran(last, {"remove_project_user_from_group"}, e, u)
             /\ ~(status[e] # "Archived" /\ userStatus[e][u] = "Removed"))
            => /\ CallsOf(last.calls, "remove_user_from_group") = {}
               /\ groups = last.before)

C7_Witness ==
    \E e \in Entities, u \in Users :
        /\ Ran(last, {"remove_allocation_user_from_group"}, e, u)
        /\ status[e] = "New" /\ userStatus[e][u] = "Removed"
        /\ \E g \in attrs[e] : u \in Members(groups, g)
        /\ last.calls = <<>>

\* C8: remove_project_user_from_group run for a project that is Archived
\* logs the "Project is archived" warning and returns: no protected set is
\* computed, no directory call is made, the directory is unchanged.
C8_ArchivedProjectNoRemoval ==
    (\A e \in Entities, u \in Users :
         (/\ Ran(last, {"remove_project_user_from_group"}, e, u)
          /\ status[e] = "Archived")
         => /\ last.logged = "Project is archived. Will not remove user from group"
            /\ last.trace = <<>>
            /\ last.calls = <<>>
            /\ last.raised = "none"
            /\ groups = last.before)

C8_Witness ==
    \E e \in Entities, u \in Users :
        /\ Ran(last, {"remove_project_user_from_group"}, e, u)
        /\ status[e] = "Archived" /\ userStatus[e][u] = "Active"
        /\ last.logged = "Project is archived. Will not remove user from group"

\* C9: remove_all_project_users_from_groups leaves the directory unchanged
\* and makes no directory call when the project is not Archived, and also
\* when the Archived project declares no group.
C9_ArchiveOnly ==
    (\A e \in Entities :
         (/\ last.op = "remove_all_project_users_from_groups" /\ last.entity = e
          /\ (status[e] # "Archived" \/ attrs[e] = {}))
         => /\ groups = last.before
            /\ last.calls = <<>>
            /\ last.trace = <<>>)

C9_Witness ==
    \E e \in Entities :
        /\ last.op = "remove_all_project_users_from_groups" /\ last.entity = e
        /\ status[e] = "Active" /\ attrs[e] # {}
        /\ \E u \in Users, g \in attrs[e] : u \in Members(groups, g) /\ userStatus[e][u] # "None"
        /\ last.calls = <<>>

\* The users holding an association on e, and how often the cascade is to
\* visit u: once per association and once more as the PI.
Associated(e) == {u \in Users : userStatus[e][u] # "None"}
ExpectedVisits(e, u) == (IF u \in Associated(e) THEN 1 ELSE 0) + (IF u = pi[e] THEN 1 ELSE 0)
Count(trace, fn, u) == Cardinality({i \in 1..Len(trace) : trace[i].fn = fn /\ trace[i].user = u})

\* C10: after remove_all_project_users_from_groups has run for an Archived
\* project declaring groups G, the protected set was computed once for every
\* association of the project, whatever its status, and once for the PI, who
\* comes last; group removal was invoked once, with G minus the user's
\* protected set, for each of these visits where that difference is not
\* empty, and not at all where it is empty.
C10_ArchiveCascade ==
    \A e \in Entities :
        (/\ last.op = "remove_all_project_users_from_groups" /\ last.entity = e
         /\ status[e] = "Archived" /\ attrs[e] # {}
         /\ last.raised = "none")
        => LET T == last.trace
               collect == "collect_other_project_user_groups"
               remove == "remove_user_from_group_set"
           IN  /\ \A u \in Users :
                     /\ Count(T, collect, u) = ExpectedVisits(e, u)
                     /\ Count(T, remove, u) =
                           IF attrs[e] \ Protected(u, e) = {} THEN 0 ELSE ExpectedVisits(e, u)
               /\ \A i \in 1..Len(T) :
                     /\ T[i].fn \in {collect, remove}
                     /\ T[i].fn = collect => T[i].groups = Protected(T[i].user, e)
                     /\ T[i].fn = remove =>
                           /\ T[i].groups = attrs[e] \ Protected(T[i].user, e)
                           /\ i > 1 /\ T[i-1].fn = collect /\ T[i-1].user = T[i].user
               /\ \E k \in 1..Len(T) :
                     /\ T[k].fn = collect /\ T[k].user = pi[e]
                     /\ \A j \in (k+1)..Len(T) : T[j].fn = remove /\ T[j].user = pi[e]

C10_Witness ==
    \E e \in Entities :
        /\ last.op = "remove_all_project_users_from_groups" /\ last.entity = e
        /\ status[e] = "Archived"
        /\ Associated(e) = Users
        /\ \E u \in Users : userStatus[e][u] = "Removed"
        /\ Cardinality({i \in 1..Len(last.trace) :
                          last.trace[i].fn = "remove_user_from_group_set"}) = NumUsers + 1

\* ------------------------------------------------ failures in the tasks
\* The outcomes of one kind that the synchronizer logged for user u, and the
\* invocations of group removal in a task's trace.
Logged(l, u, what) == {i \in 1..Len(l.log) : l.log[i].user = u /\ l.log[i].what = what}
Removals(l) == {i \in 1..Len(l.trace) : l.trace[i].fn = "remove_user_from_group_set"}
Collects(l) == {i \in 1..Len(l.trace) : l.trace[i].fn = "collect_other_project_user_groups"}

\* The visit of the PI in the cascade's trace: the one that follows the
\* visits of all the project's associations.
PIVisit(l, e) ==
    {i \in Collects(l) : Cardinality({j \in Collects(l) : j < i}) = Cardinality(Associated(e))}

\* C11: in the archive cascade the group removal of every project user is
\* invoked with the set-status-to-Pending callback and that of the PI with
\* no callback; when the removal of a PI who holds no association on the
\* project fails on a group, no callback is called for it, no exception
\* escapes because of it and no association status changes.
C11_PIWithoutCallback ==
    \A e \in Entities :
        (last.op = "remove_all_project_users_from_groups" /\ last.entity = e)
        => /\ \A i \in Removals(last) :
                  IF \E k \in PIVisit(last, e) : k < i
                  THEN last.trace[i].cb = NoCallback /\ last.trace[i].user = pi[e]
                  ELSE last.trace[i].cb = "set_project_user_status_to_pending"
           /\ (pi[e] \notin Associated(e) /\ Logged(last, pi[e], "error") # {})
                  => /\ last.callbacks =
                          Cardinality({i \in 1..Len(last.log) :
                                          last.log[i].user # pi[e] /\ last.log[i].what = "error"})
                     /\ last.raised = "none"

C11_Witness ==
    \E e \in Entities :
        /\ last.op = "remove_all_project_users_from_groups" /\ last.entity = e
        /\ pi[e] \notin Associated(e)
        /\ Associated(e) # {}
        /\ Logged(last, pi[e], "error") # {}
        /\ last.callbacks = 0
        /\ last.raised = "none"
        /\ \E i \in Removals(last) : last.trace[i].user # pi[e]

\* The task op ran the synchronizer for u on e with the group set gs.
RanSet(l, e, u, gs) ==
    /\ l.op \in AddTasks \cup RemoveTasks /\ l.entity = e /\ l.user = u
    /\ l.trace # <<>>
    /\ l.trace[Len(l.trace)].fn \in {"add_user_to_group_set", "remove_user_from_group_set"}
    /\ l.trace[Len(l.trace)].groups = gs

\* The groups for which the synchronizer logged an outcome for u.
Attempted(l, u) == {l.log[i].group : i \in {j \in 1..Len(l.log) : l.log[j].user = u}}

\* C12 as stated: an add or remove task whose pass over G met an unexpected
\* failure on a group has still attempted every group of G, and an archive
\* cascade that met one has still visited every association and the PI.
C12_PerGroupIndependence ==
    /\ \A e \in Entities, u \in Users, gs \in SUBSET GroupNames :
          (RanSet(last, e, u, gs) /\ Logged(last, u, "error") # {})
          => Attempted(last, u) = gs
    /\ \A e \in Entities :
          (/\ last.op = "remove_all_project_users_from_groups" /\ last.entity = e
           /\ \E u \in Users : Logged(last, u, "error") # {})
          => /\ Cardinality(Collects(last)) = Cardinality(Associated(e)) + 1
             /\ \A i \in Removals(last) :
                   last.trace[i].groups \subseteq Attempted(last, last.trace[i].user)

\* C13 as stated: a task whose pass met an unexpected failure on a group
\* has called its error callback and leaves the association in Error
\* (allocation tasks) or Pending (project tasks).
C13_FailureMarksAssociation ==
    \A e \in Entities, u \in Users, gs \in SUBSET GroupNames :
        (RanSet(last, e, u, gs) /\ Logged(last, u, "error") # {})
        => /\ last.callbacks >= 1
           /\ userStatus[e][u] = (IF kind = "allocation" THEN "Error" ELSE "Pending")

\* The last operation was a pass of the synchronizer, called directly.
SetCall(l) == l.op \in {"add_user_to_group_set", "remove_user_from_group_set"}
Benign == {"already_member", "not_member", "no_group"}

\* C14: in a pass of add_user_to_group_set / remove_user_from_group_set the
\* benign errors never escape, the error callback is called for the
\* unexpected failures only, a benign outcome never ends the pass (the pass
\* stops early only after an unexpected failure whose callback raised) and
\* no association status is touched.
C14_BenignHandledLocally ==
    SetCall(last)
    => /\ last.raised \notin {"AlreadyMemberError", "NotMemberError", "GroupDoesNotExistError"}
       /\ last.callbacks <= Cardinality(Logged(last, last.user, "error"))
       /\ (\A i \in 1..Len(last.log) : last.log[i].what # "error")
             => /\ last.callbacks = 0
                /\ last.raised = "none"
                /\ Attempted(last, last.user) = last.trace[1].groups
       /\ \A i \in 1..Len(last.log) :
             (last.log[i].what \in Benign /\ i = Len(last.log))
             => Len(last.log) = Cardinality(last.trace[1].groups)
       /\ \A i \in 1..Len(last.log) :
             last.log[i].what \in Benign
             => /\ last.log[i].what = "already_member"
                   => last.log[i].user \in Members(last.before, last.log[i].group)
                /\ last.log[i].what = "not_member"
                   => /\ last.log[i].group \in DOMAIN last.before
                      /\ last.log[i].user \notin last.before[last.log[i].group]
                /\ last.log[i].what = "no_group"
                   => last.log[i].group \notin DOMAIN last.before
       /\ \A i \in 1..Len(last.log) :
             last.log[i].what = "error"
             => IF last.op = "add_user_to_group_set"
                THEN last.log[i].user \notin Members(last.before, last.log[i].group)
                ELSE last.log[i].user \in Members(last.before, last.log[i].group)
       /\ userStatus = [e \in Entities |-> [u \in Users |-> "None"]]

C14_Witness ==
    /\ SetCall(last)
    /\ last.trace[1].cb # NoCallback
    /\ Len(last.log) = NumGroups
    /\ last.log[1].what \in Benign
    /\ last.log[NumGroups].what \in {"added", "removed"}
    /\ last.callbacks = 0

\* C15 as stated: an add or remove the directory did not carry out (the
\* client returned False) is not logged as a success: a group logged as
\* added holds the user afterwards, a group logged as removed does not.
C15_FalseIsFailure ==
    SetCall(last)
    => \A i \in 1..Len(last.log) :
          /\ last.log[i].what = "added"
                => last.log[i].user \in Members(groups, last.log[i].group)
          /\ last.log[i].what = "removed"
                => last.log[i].user \notin Members(groups, last.log[i].group)

\* The calls of one client operation made for one group.
CallsFor(calls, op, group) == {i \in CallsOf(calls, op) : calls[i].group = group}

\* C16: in one pass of add_user_to_group_set / remove_user_from_group_set
\* every group of the set receives at most one add (remove) call, whether
\* the call succeeds or fails, and no other group receives any.
C16_NoInternalRetry ==
    SetCall(last)
    => \A g \in GroupNames :
          /\ Cardinality(CallsFor(last.calls, "add_user_to_group", g)) <= 1
          /\ Cardinality(CallsFor(last.calls, "remove_user_from_group", g)) <= 1
          /\ g \notin last.trace[1].groups
                => /\ CallsFor(last.calls, "add_user_to_group", g) = {}
                   /\ CallsFor(last.calls, "remove_user_from_group", g) = {}

C16_Witness ==
    /\ last.op = "add_user_to_group_set"
    /\ Logged(last, last.user, "error") # {}
    /\ \E g \in GroupNames :
          /\ Cardinality(CallsFor(last.calls, "add_user_to_group", g)) = 1
          /\ last.user \notin Members(groups, g)

\* ------------------------------------------------- the group resolver
Collectors == {"collect_other_allocation_user_groups", "collect_other_project_user_groups"}

\* C17: the set collect_other_*_user_groups(U, E) returns is exactly the
\* union of the groups declared by the entities other than E that are
\* Active and on which U's association is Active; an entity that is not
\* Active, or on which U is Pending, New, Removed or absent, contributes
\* no group of its own.
C17_ProtectedSetExact ==
    \A e \in Entities, u \in Users :
        (last.op \in Collectors /\ last.entity = e /\ last.user = u)
        => /\ last.ret = {g \in GroupNames :
                            \E b \in Entities : /\ b # e
                                                /\ status[b] = "Active"
                                                /\ userStatus[b][u] = "Active"
                                                /\ g \in attrs[b]}
           /\ \A b \in Entities :
                 (b = e \/ status[b] # "Active" \/ userStatus[b][u] # "Active")
                 => \A g \in attrs[b] \cap last.ret :
                       \E c \in Entities \ {b, e} : Holds(u, c, g)

C17_Witness ==
    \E e, b \in Entities, u \in Users :
        /\ last.op = "collect_other_allocation_user_groups" /\ last.entity = e /\ last.user = u
        /\ b # e
        /\ status[b] = "Pending" /\ userStatus[b][u] = "Active"
        /\ attrs[b] = GroupNames /\ attrs[e] = GroupNames
        /\ last.ret = {}


\* A completed sync_users pass: the collation returned a list.
Passed(l) == l.op = "sync_users" /\ l.raised # "TypeError"

\* The Difference Records of a pass for one entity and one group.
RecordsFor(l, id, g) == {i \in 1..Len(l.ret) : l.ret[i].id = id /\ l.ret[i].group = g}

\* C18: for every collated entity record and every group g it declares,
\* the differ computes missing_from_external = members - directory[g] and
\* missing_from_coldfront = directory[g] - members, and emits a Difference
\* Record for (entity, g) if and only if one of the two sets is non-empty:
\* exactly one record with these two sets when they differ, none when they
\* do not, and no record for any other entity or group.
C18_DifferExact ==
    Passed(last) =>
        /\ \A k \in 1..Len(last.collated) : \A g \in last.collated[k].groups :
              LET entry == last.collated[k]
                  directory == Members(last.before, g)
                  missing_from_external == entry.users \ directory
                  missing_from_coldfront == directory \ entry.users
                  emitted == RecordsFor(last, entry.id, g)
              IN  IF missing_from_external # {} \/ missing_from_coldfront # {}
                  THEN /\ Cardinality(emitted) = 1
                       /\ \A i \in emitted :
                            /\ last.ret[i].missing_from_external = missing_from_external
                            /\ last.ret[i].missing_from_coldfront = missing_from_coldfront
                  ELSE emitted = {}
        /\ \A i \in 1..Len(last.ret) :
              \E k \in 1..Len(last.collated) :
                  /\ last.collated[k].id = last.ret[i].id
                  /\ last.ret[i].group \in last.collated[k].groups

\* A pass over an entity of two groups: one group differs on both sides
\* and gives a record, the other agrees and gives none.
C18_Witness ==
    /\ Passed(last)
    /\ Len(last.ret) = 1
    /\ last.ret[1].missing_from_external # {}
    /\ last.ret[1].missing_from_coldfront # {}
    /\ \E k \in 1..Len(last.collated) : Cardinality(last.collated[k].groups) = 2


\* C19: a sync_users pass run with dry_run set performs no mutation,
\* whatever the sync direction flag is: the directory memberships and
\* groups, the User records and the association statuses are after the
\* pass what they were before it, the only client calls made are reads of
\* group members, and a pass that completes returns the Difference Records
\* of the entity it collated.
C19_DryRunMutatesNothing ==
    [][(last'.op = "sync_users" /\ last'.options.dry_run) =>
          /\ groups' = groups
          /\ accounts' = accounts
          /\ userStatus' = userStatus
          /\ status' = status /\ attrs' = attrs /\ pi' = pi
          /\ \A i \in 1..Len(last'.calls) : last'.calls[i].op = "get_group_members"
          /\ last'.log = <<>>
          /\ Passed(last') =>
                \A k \in 1..Len(last'.collated) : \A g \in last'.collated[k].groups :
                    last'.collated[k].users # Members(groups, g)
                        => RecordsFor(last', last'.collated[k].id, g) # {}]_vars

\* A dry run in the direction of the directory, without a username filter,
\* that returned a record with users to add and users to remove.
C19_Witness ==
    /\ Passed(last)
    /\ last.options.dry_run /\ last.options.sync_to
    /\ last.options.username = NoFilter
    /\ \E i \in 1..Len(last.ret) :
          /\ last.ret[i].missing_from_external # {}
          /\ last.ret[i].missing_from_coldfront # {}
    /\ groups = last.before


\* C20: a sync pass towards the directory never removes from a group g a
\* user who has an Active association on some Active entity that declares
\* g, even when that entity is not the one whose Difference Record is
\* being applied.
C20_SyncToKeepsActiveGrants ==
    (last.op = "sync_users" /\ ~last.options.dry_run /\ last.options.sync_to) =>
        \A g \in GroupNames, u \in Users :
            (/\ u \in Members(last.before, g)
             /\ \E e \in Entities : /\ status[e] = "Active"
                                     /\ g \in get_attribute_list(e)
                                     /\ userStatus[e][u] = "Active")
                => u \in Members(groups, g)


\* The client calls of a log that change the directory.
Writes(calls) == CallsOf(calls, "add_user_to_group") \cup CallsOf(calls, "remove_user_from_group")

\* A completed pass in the direction of the directory that was not a dry run.
SyncedTo(l) == Passed(l) /\ ~l.options.dry_run /\ l.options.sync_to

\* C21: in a pass towards the directory without a username filter, for
\* each Difference Record the pass calls add_user_to_group for every user
\* in missing_from_external and remove_user_from_group for every user in
\* missing_from_coldfront, on that record's group; it makes no other
\* write, the group of a record ends with the first set added and the
\* second removed, and nothing in the registry changes.
C21_SyncToAppliesRecords ==
    [][(SyncedTo(last') /\ last'.options.username = NoFilter) =>
          /\ UNCHANGED registry
          /\ \A i \in 1..Len(last'.ret) :
                LET diff == last'.ret[i] IN
                /\ \A u \in diff.missing_from_external :
                      \E c \in CallsFor(last'.calls, "add_user_to_group", diff.group) :
                          last'.calls[c].user = u
                /\ \A u \in diff.missing_from_coldfront :
                      \E c \in CallsFor(last'.calls, "remove_user_from_group", diff.group) :
                          last'.calls[c].user = u
                /\ Members(groups', diff.group)
                      = (Members(groups, diff.group) \cup diff.missing_from_external)
                            \ diff.missing_from_coldfront
          /\ \A c \in Writes(last'.calls) :
                \E i \in 1..Len(last'.ret) :
                    /\ last'.ret[i].group = last'.calls[c].group
                    /\ last'.calls[c].user \in
                          IF last'.calls[c].op = "add_user_to_group"
                          THEN last'.ret[i].missing_from_external
                          ELSE last'.ret[i].missing_from_coldfront]_vars

\* A pass towards the directory, without a username filter, over two
\* Difference Records, one of them with a user to add and a user to
\* remove, that made calls of both kinds.
C21_Witness ==
    /\ SyncedTo(last)
    /\ last.options.username = NoFilter
    /\ Len(last.ret) = 2
    /\ \E i \in 1..Len(last.ret) :
          /\ last.ret[i].missing_from_external # {}
          /\ last.ret[i].missing_from_coldfront # {}
    /\ Cardinality(CallsOf(last.calls, "add_user_to_group")) >= 2
    /\ CallsOf(last.calls, "remove_user_from_group") # {}


\* A completed pass in the direction of the registry that was not a dry run.
SyncedFrom(l) == Passed(l) /\ ~l.options.dry_run /\ ~l.options.sync_to

\* C22: in a pass from the directory (not a dry run, sync_to not set), for
\* each Difference Record the directory is left unchanged, every username
\* in missing_from_coldfront ends with a User record and an Active
\* association to the record's entity, and every username in
\* missing_from_external that has an association to the entity ends with
\* that association Removed (and still present).
C22_SyncFromMutatesRegistry ==
    (SyncedFrom(last) /\ last.options.username = NoFilter) =>
        /\ groups = last.before
        /\ \A i \in 1..Len(last.ret) :
              LET diff == last.ret[i] IN
              /\ \A u \in diff.missing_from_coldfront :
                    u \in accounts /\ userStatus[diff.id][u] = "Active"
              /\ \A u \in diff.missing_from_external :
                    userStatus[diff.id][u] \in {"None", "Removed"}


\* The entities that qualify for collation under a group filter: Active,
\* declaring at least one group, and declaring the filter's group if one
\* is given.
Qualifying(group_specified) ==
    {e \in Entities : /\ status[e] = "Active"
                      /\ get_attribute_list(e) # {}
                      /\ (group_specified = NoFilter \/ group_specified \in get_attribute_list(e))}

\* The entities a pass collated a record for.
CollatedIds(l) == {l.collated[k].id : k \in 1..Len(l.collated)}

\* C23: the collation step of a sync pass returns one record for every
\* Active entity that declares at least one group and passes the group
\* filter, so that a pass over N qualifying entities diffs all N of them.
C23_CollationComplete ==
    last.op = "sync_users" =>
        /\ CollatedIds(last) = Qualifying(last.options.group)
        /\ Len(last.collated) = Cardinality(Qualifying(last.options.group))


\* The entities a group filter skips: those whose declared groups do not
\* contain the filter's group.
Skipped(group_specified) ==
    {e \in Entities : group_specified # NoFilter /\ group_specified \notin get_attribute_list(e)}

\* C24: when a group filter g is supplied to the sync pass, an entity whose
\* declared groups do not contain g is skipped before diffing: it
\* contributes no entity record, no Difference Record carries its
\* identifier, and every group queried in the directory is declared by an
\* entity that was not skipped (none is queried on a skipped entity's
\* behalf).
C24_GroupFilterSkips ==
    (last.op = "sync_users" /\ last.options.group # NoFilter) =>
        /\ CollatedIds(last) \cap Skipped(last.options.group) = {}
        /\ \A i \in 1..Len(last.ret) : last.ret[i].id \notin Skipped(last.options.group)
        /\ \A c \in CallsOf(last.calls, "get_group_members") :
              \E e \in CollatedIds(last) \ Skipped(last.options.group) :
                  last.calls[c].group \in get_attribute_list(e)

\* A pass with a group filter over two Active entities, one of which does
\* not declare the filter's group: the other one was collated and diffed.
C24_Witness ==
    /\ Passed(last)
    /\ last.options.group # NoFilter
    /\ \E e \in Skipped(last.options.group) : status[e] = "Active" /\ get_attribute_list(e) # {}
    /\ CollatedIds(last) # {}
    /\ last.ret # <<>>
    /\ CallsOf(last.calls, "get_group_members") # {}


\* C25: when a username filter u is supplied to a sync pass that is not a
\* dry run, in either direction, only u is touched: the members other than
\* u of every group, the User records other than u's and the associations
\* of every other user are after the pass what they were before it; every
\* write sent to the directory and every registry write attempted is for u.
C25_UsernameFilterFrame ==
    [][(/\ last'.op = "sync_users"
        /\ ~last'.options.dry_run
        /\ last'.options.username # NoFilter) =>
          LET u == last'.options.username IN
          /\ \A g \in GroupNames : Members(groups', g) \ {u} = Members(groups, g) \ {u}
          /\ DOMAIN groups' = DOMAIN groups
          /\ accounts' \ {u} = accounts \ {u}
          /\ \A e \in Entities, v \in Users \ {u} : userStatus'[e][v] = userStatus[e][v]
          /\ \A c \in Writes(last'.calls) : last'.calls[c].user = u
          /\ \A i \in 1..Len(last'.log) : last'.log[i].user = u]_vars

\* A pass towards the directory with a username filter, where a Difference
\* Record also names another user, and the filtered user was written.
C25_Witness ==
    /\ SyncedTo(last)
    /\ last.options.username # NoFilter
    /\ \E i \in 1..Len(last.ret) :
          \E v \in last.ret[i].missing_from_external \cup last.ret[i].missing_from_coldfront :
              v # last.options.username
    /\ Writes(last.calls) # {}
    /\ groups # last.before


\* C29: add_allocation_user_to_group reports its outcome as a boolean and
\* not as an exception: it returns False, having made no directory call,
\* when the allocation is not Active, when the allocation user is not
\* Active, or when the allocation declares no group; it returns True in
\* every other case, after the group set was handed to the synchronizer.
C29_AddAllocationReturnsBoolean ==
    last.op = "add_allocation_user_to_group" =>
        LET e == last.entity
            u == last.user
            refused == \/ status[e] # "Active"
                       \/ userStatus[e][u] # "Active"
                       \/ get_attribute_list(e) = {}
        IN  /\ last.raised = "none"
            /\ last.ret = IF refused THEN "False" ELSE "True"
            /\ refused => last.calls = <<>> /\ last.trace = <<>> /\ groups = last.before
            /\ ~refused => /\ Len(last.trace) = 1
                            /\ last.trace[1].fn = "add_user_to_group_set"
                            /\ last.trace[1].user = u
                            /\ last.trace[1].groups = get_attribute_list(e)


\* Both dispatched tasks have run to their end.
BothDone == DOMAIN workers = Workers /\ \A w \in 1..2 : workers[w].pc = "done"

\* The directory after task t has run alone, start to end, on dir.
Serial(t, dir) ==
    LET gs == task_groups(t.fn, t.entity, t.user)
        order == CHOOSE o \in Orders(gs) : TRUE
    IN  IF Adds(t)
        THEN add_user_to_group_set(t.user, order, dir, NoFaults, NoCallback).dir
        ELSE remove_user_from_group_set(t.user, order, dir, NoFaults, NoCallback).dir

\* C26: two add tasks, or two remove tasks, for different associations run
\* concurrently with their directory calls interleaved in any order, also
\* when both target a group that does not exist yet: once both are done
\* the directory is what one of the two serial executions of the tasks
\* gives, and after two adds each user is a member of all the groups
\* declared for their association.
C26_InterleavingSerializable ==
    BothDone =>
        LET t1 == workers[1]
            t2 == workers[2]
        IN  /\ groups \in {Serial(t2, Serial(t1, t1.dir0)), Serial(t1, Serial(t2, t1.dir0))}
            /\ Adds(t1) => \A w \in 1..2 : \A g \in get_attribute_list(workers[w].entity) :
                              workers[w].user \in Members(groups, g)

\* Two add tasks for two users, both for a group that did not exist when
\* they were dispatched, have both made their add call and are done.
C26_Witness ==
    /\ BothDone
    /\ Adds(workers[1])
    /\ workers[1].user # workers[2].user
    /\ workers[1].dir0 = <<>>
    /\ \E g \in GroupNames : {workers[1].user, workers[2].user} \subseteq Members(groups, g)


\* C27: add-if-absent and remove-if-present are enforced by the engine,
\* also when several tasks that touch the same (user, group) run
\* concurrently: add_user_to_group is never called for a user who is a
\* member of the group at the moment of the call, and
\* remove_user_from_group is never called for a user who is not a member,
\* or for a group that does not exist, at the moment of the call.
C27_CallsMatchDirectory ==
    last.op = "step" =>
        /\ \A c \in CallsOf(last.calls, "add_user_to_group") :
              last.calls[c].user \notin Members(last.before, last.calls[c].group)
        /\ \A c \in CallsOf(last.calls, "remove_user_from_group") :
              /\ last.calls[c].group \in DOMAIN last.before
              /\ last.calls[c].user \in Members(last.before, last.calls[c].group)


\* Every task dispatched so far has completed.
Quiet == DOMAIN workers = Workers /\ \A w \in Workers : workers[w].pc \in {"idle", "done"}

\* C28: with entities Active and their declared groups fixed, once every
\* task dispatched for a sequence of activation and removal signals has
\* completed (no directory call failing), every user who holds an Active
\* association on an Active entity that declares group g is a member of g,
\* for every order and interleaving in which the tasks run.
C28_EventDrivenConsistency ==
    Quiet =>
        \A u \in Users, e \in Entities, g \in GroupNames :
            Holds(u, e, g) => u \in Members(groups, g)

\* The actions under which a report carries a mapping key.
ActionsOf(report, key) ==
    {report[i].action : i \in {j \in 1..Len(report) : report[j].mapping_key = key}}

\* The outcomes a report holds: each mapping key with the action it is
\* listed under.
Outcomes(report) == {<<report[i].mapping_key, report[i].action>> : i \in 1..Len(report)}

\* C30: load_groups writes a report of every outcome also in dry-run mode:
\* for the same registry state and input mappings, each mapping is reported
\* under the same action (added, updated or skipped) in a dry run as in a
\* real run that completes, at both the project and the allocation
\* alignment; the dry run itself changes no attribute value.
C30_DryRunReportsAsRealRun ==
    [][(/\ last'.op = "load_groups"
        /\ last'.trace[1].dry_run
        /\ DOMAIN last'.trace[1].group_mappings # {}) =>
         LET input == last'.trace[1]
             group_mappings == input.group_mappings
         IN  /\ attrs' = attrs
             /\ last'.raised = "none"
             /\ \A order \in Orders(load_selection(input.include_new)),
                   keys \in Orders(DOMAIN group_mappings), null_saved \in BOOLEAN :
                  LET real == load_groups_run(input.include_new, FALSE, group_mappings,
                                              order, keys, null_saved)
                  IN  real.raised = "none" =>
                        /\ Outcomes(last'.ret) = Outcomes(real.report)
                        /\ \A key \in DOMAIN group_mappings :
                              ActionsOf(last'.ret, key) = ActionsOf(real.report, key)]_vars

\* C31: if remove_user_from_group_set(u, G) completes without invoking the
\* error callback, then u is not a member of any group of G in the directory
\* afterwards, also when a directory read fails in the way the client
\* reports failure (group_exists answering false, get_group_members
\* answering an empty collection).
C31_RemoveSetCompletesRemoved ==
    (last.op = "remove_user_from_group_set" /\ last.raised = "none" /\ last.callbacks = 0) =>
        \A g \in last.trace[1].groups : last.user \notin Members(groups, g)

\* C33: frame of the single-entity synchronizer: add_user_to_group_set(u, G)
\* never removes any member from any group and changes the membership only
\* of user u and only in groups of G; remove_user_from_group_set(u, G) never
\* adds a member, never creates a group, and changes the membership only of
\* user u and only in groups of G.
C33_SynchronizerFrame ==
    LET u == last.user
        G == last.trace[1].groups
        only_u_in_G ==
            \A v \in Users, g \in GroupNames :
                (v # u \/ g \notin G) =>
                    (v \in Members(groups, g) <=> v \in Members(last.before, g))
    IN  /\ last.op = "add_user_to_group_set" =>
            /\ \A g \in GroupNames : Members(last.before, g) \subseteq Members(groups, g)
            /\ DOMAIN last.before \subseteq DOMAIN groups
            /\ only_u_in_G
        /\ last.op = "remove_user_from_group_set" =>
            /\ \A g \in GroupNames : Members(groups, g) \subseteq Members(last.before, g)
            /\ DOMAIN groups = DOMAIN last.before
            /\ only_u_in_G

C33_Witness ==
    /\ last.op = "remove_user_from_group_set"
    /\ \E g \in last.trace[1].groups :
          /\ last.user \in Members(last.before, g)
          /\ last.user \notin Members(groups, g)
          /\ Members(groups, g) # {}
    /\ \E h \in GroupNames \ last.trace[1].groups : last.user \in Members(groups, h)

\* The last operation was the emission of signal s, after the receivers
\* were initialised.
Sent(s) == last.op = "send" /\ last.trace[1].signal = s /\ receivers # NoReceivers

\* C34: signal wiring follows the configured alignment: with project_level
\* true only the project activate/remove signals dispatch a task and the
\* allocation activate/remove signals dispatch none; with project_level
\* false only the allocation signals do; the project-archive signal
\* dispatches the remove-all task if and only if remove_on_archive is true;
\* and one signal emission from a connected sender dispatches exactly one
\* task.
C34_SignalWiring ==
    LET project_level == settings.MANAGE_GROUPS_AT_PROJECT_LEVEL
        remove_on_archive == settings.USER_MANAGEMENT_REMOVE_USERS_ON_PROJECT_ARCHIVE
        tasks == last.ret
        fns == {tasks[i].fn : i \in 1..Len(tasks)}
        connected(s, sender) ==
            IF project_level
            THEN \/ s = "project_activate_user" /\ sender = "ProjectAddUsersView"
                 \/ s = "project_remove_user" /\ sender = "ProjectRemoveUsersView"
            ELSE \/ s = "allocation_activate_user"
                    /\ sender \in {"ProjectAddUsersView", "AllocationAddUsersView"}
                 \/ s = "allocation_remove_user"
                    /\ sender \in {"ProjectRemoveUsersView", "AllocationRemoveUsersView",
                                   "AllocationRenewView"}
    IN  \A s \in Signals :
          Sent(s) =>
            /\ (project_level /\ s \in AllocationUserSignals) => tasks = <<>>
            /\ (~project_level /\ s \in ProjectUserSignals) => tasks = <<>>
            /\ s = "project_activate_user" => fns \subseteq {"add_project_user_to_group"}
            /\ s = "project_remove_user" => fns \subseteq {"remove_project_user_from_group"}
            /\ s = "allocation_activate_user" => fns \subseteq {"add_allocation_user_to_group"}
            /\ s = "allocation_remove_user" => fns \subseteq {"remove_allocation_user_from_group"}
            /\ s = "project_archive" =>
                  /\ fns \subseteq {"remove_all_project_users_from_groups"}
                  /\ (tasks # <<>>) <=> remove_on_archive
            /\ (s = "project_archive" /\ remove_on_archive) => Len(tasks) = 1
            /\ connected(s, last.trace[1].sender) =>
                  /\ Len(tasks) = 1
                  /\ tasks[1].entity = last.entity /\ tasks[1].user = last.user
            /\ (s # "project_archive" /\ ~connected(s, last.trace[1].sender)) => tasks = <<>>

C34_Witness ==
    /\ Sent("allocation_remove_user")
    /\ last.trace[1].sender = "ProjectRemoveUsersView"
    /\ Len(receivers) = 6
    /\ Len(last.ret) = 1

\* C35: a sync_users pass completes normally, returning an empty list of
\* differences and mutating nothing, when no entity qualifies for collation
\* (no Active entity declares a group, or the group filter excludes all of
\* them).
C35_EmptyCollationCompletes ==
    (last.op = "sync_users" /\ Qualifying(last.options.group) = {}) =>
        /\ last.raised = "none"
        /\ last.ret = <<>>
        /\ groups = last.before
        /\ Writes(last.calls) = {}
        /\ last.log = <<>>

C36_UnmappedAllocationUntouched ==
    [][(last'.op = "load_groups" /\ kind = "allocation") =>
          \A e \in Entities :
              PkKey(e) \notin DOMAIN last'.trace[1].group_mappings =>
                  /\ attrs'[e] = attrs[e]
                  /\ \A i \in 1..Len(last'.ret) :
                        last'.ret[i].entity = e =>
                            last'.ret[i].action \notin {"added", "updated"}]_vars

\* The rows of a file that should yield a mapping for a project, and those
\* that should yield one for an allocation.
ProjectRows(rows) ==
    {i \in 1..Len(rows) : /\ ~is_empty(rows[i].group)
                          /\ ~is_empty(rows[i].project) /\ ~is_empty(rows[i].pi_username)
                          /\ is_empty(rows[i].allocation_id)}
AllocationRows(rows) ==
    {i \in 1..Len(rows) : ~is_empty(rows[i].group) /\ ~is_empty(rows[i].allocation_id)}

\* C37: input parsing of load_groups: every row with a non-empty group and
\* non-empty project and pi_username (and no allocation_id) yields a mapping
\* under the key lower("{project}_{pi_username}"), the key
\* set_group_attribute_for_projects looks up; a row with a non-empty
\* allocation_id yields a mapping under that id; a row with an empty group,
\* or with neither an allocation_id nor both project and pi_username,
\* yields no mapping.
C37_ParseYieldsMappings ==
    last.op = "__parse_input_data" =>
        LET rows == last.trace[1].rows
            group_mappings == last.ret
            key(i) == IF i \in AllocationRows(rows) THEN PkKey(rows[i].allocation_id)
                      ELSE format_key(rows[i].project, rows[i].pi_username)
        IN  /\ \A i \in ProjectRows(rows) \cup AllocationRows(rows) :
                  key(i) \in DOMAIN group_mappings
            /\ \A i \in ProjectRows(rows) :
                  (rows[i].pi_username = pi[rows[i].project]) =>
                      TitlePiKey(rows[i].project) \in DOMAIN group_mappings
            /\ \A k \in DOMAIN group_mappings :
                  \E i \in ProjectRows(rows) \cup AllocationRows(rows) :
                      key(i) = k /\ group_mappings[k] = rows[i].group

\* The entity a mapping key of the input matches at the alignment of the
\* run, among the entities the run visits; 0 when it matches none.
MatchedEntity(key, include_new) ==
    LET matches == {e \in load_selection(include_new) :
                       key = IF kind = "project" THEN TitlePiKey(e) ELSE PkKey(e)}
    IN  IF matches = {} THEN 0 ELSE CHOOSE e \in matches : TRUE

\* C38: in the load_groups report, every mapping key of the input file
\* appears under exactly one of the actions added, updated or skipped: a key
\* matched to an entity is reported once, under that entity's outcome, and
\* a key that matched no entity is reported once, as skipped; at both the
\* project and the allocation alignment.
C38_EveryKeyReportedOnce ==
    (last.op = "load_groups" /\ last.raised = "none") =>
        LET input == last.trace[1]
            report == last.ret
            rows_of(key) == {i \in 1..Len(report) : report[i].mapping_key = key}
        IN  \A key \in DOMAIN input.group_mappings :
              /\ Cardinality(rows_of(key)) = 1
              /\ \A i \in rows_of(key) :
                    /\ report[i].action \in {"added", "updated", "skipped"}
                    /\ MatchedEntity(key, input.include_new) # 0 =>
                          report[i].entity = MatchedEntity(key, input.include_new)
                    /\ MatchedEntity(key, input.include_new) = 0 =>
                          report[i].action = "skipped"

====
